---- MODULE Spec2Model ----
(***************************************************************************)
(* Model of the sup-linux face authentication service:                     *)
(*   - UserStore::merge_user_data        (src/src/storage/user_store.rs)   *)
(*   - perform_authentication            (src/src/bin/service.rs)          *)
(*   - the enroll / enhance handlers     (src/src/bin/service.rs)          *)
(*                                                                         *)
(* Floats are modelled exactly on the values the model uses: a quality is  *)
(* an integer number of hundredths (0.55 is 55), an embedding is a vector  *)
(* of small integers over a positive denominator (v / d), a similarity is  *)
(* kept as the pair (dot, |a|^2 |b|^2) and compared by cross-multiplying.  *)
(* Time is an integer number of ticks of the monotonic clock.              *)
(***************************************************************************)
EXTENDS Integers, Sequences, FiniteSets, TLC

VARIABLES
    \* ---- merge_user_data, called on its own --------------------------
    m_pc,               \* "call" before the call, "ret" after it
    m_existing,         \* the UserData passed as `existing` (before the call)
    m_new_embeddings,   \* argument new_embeddings
    m_new_qualities,    \* argument new_qualities
    m_replace_weak,     \* argument replace_weak
    m_out,              \* [data, added, replaced] after the call
    \* ---- the service's environment -----------------------------------
    config,             \* the Config snapshot the service runs with
    store,              \* <data_dir>/users: username -> Option<UserData>
    camera,             \* "closed" | "open": the camera device
    now,                \* the monotonic clock, in ticks
    \* ---- handle_auth_request / perform_authentication ----------------
    a_pc,               \* "idle" | "loop" | "done"
    a_request,          \* the AuthRequest: [username, challenge]
    a_user_data,        \* the record loaded by get_user
    a_state,            \* the AuthenticationState
    a_start_time,       \* start_time
    a_total_attempts,   \* total_attempts
    a_response,         \* the Response written to the client
    a_last,             \* history: what the latest loop iteration saw and did
    a_hist,             \* history: hit/miss of the frames compared since the last reset
    \* ---- the enroll and enhance handlers -----------------------------
    s_pc,               \* "idle" | "loop" | "done"
    s_request,          \* the EnrollRequest or EnhanceRequest
    s_peer,             \* peer_cred.uid
    s_user_data,        \* enhance: the record loaded by get_user, merged at the end
    s_local,            \* the locals of the capture loop
    s_response,         \* the terminal Response
    images,             \* <data_dir>/enrollment: the image files, <<user, prefix, index>>
    s_trace,            \* history: how far the request got, and the files it found
    \* ---- the connection handle_client serves ---------------------------
    inbox,              \* the request waiting on the socket, with the peer's uid
    wire,               \* history: the frames written on the socket
    \* ---- main: the accept loop ---------------------------------------
    d_backlog,          \* the clients that have connected and wait to be accepted
    d_current,          \* the client whose connection handle_client is serving
    d_served,           \* history: the clients served, in the order they were
    d_waited,           \* history: the clients that connected during another's handling
    d_failed,           \* history: the clients whose request could not be read
    d_hungup,           \* the clients that have closed their end of the socket
    d_stalled,          \* the clients that have stopped reading: their socket buffer is full
    \* ---- the framing of one message, on its own ------------------------
    k_message,          \* [channel, msg]: the message handed to the sender
    k_decoded,          \* what the receiver of that channel read back
    \* ---- the authentication helpers (linuxsup-auth, the PAM module) ----
    h_env,              \* the helper, its environment and what the call will meet
    h_run,              \* [code, sent] once the helper has returned
    \* ---- the detector's output parser, on its own ----------------------
    y_output,           \* [preds, transposed]: the model's predictions and their layout
    y_faces             \* [fn, out] once one of the two parsers has run

mergeVars == <<m_pc, m_existing, m_new_embeddings, m_new_qualities, m_replace_weak, m_out>>
codecVars == <<k_message, k_decoded>>
helperVars == <<h_env, h_run>>
detectorVars == <<y_output, y_faces>>
standaloneVars == <<mergeVars, codecVars, helperVars, detectorVars>>
envVars == <<config, store, camera, now>>
authVars == <<a_pc, a_request, a_user_data, a_state, a_start_time, a_total_attempts,
              a_response, a_last, a_hist>>

serviceVars == <<s_pc, s_request, s_peer, s_user_data, s_local, s_response, images, s_trace>>

connVars == <<inbox, wire>>
dispatchVars == <<d_backlog, d_current, d_served, d_waited, d_failed, d_hungup, d_stalled>>

vars == <<standaloneVars, envVars, authVars, serviceVars, connVars, dispatchVars>>

(***************************************************************************)
(* Bounds of the model.                                                    *)
(***************************************************************************)
MaxExisting == 3    \* embeddings in a record handed to merge
MaxNew == 2         \* new samples handed to merge
MaxN == 3           \* largest n_total_attempts and k_required_matches
MaxF == 2           \* largest embedding_buffer_size
MaxLost == 2        \* largest lost_face_timeout, in ticks
MaxTimeout == 5     \* auth.timeout_seconds, in ticks
MaxCaptures == 2    \* largest enrollment.num_captures
MaxAdditional == 1  \* largest additional_captures a request names

(***************************************************************************)
(* Option<T>: None is the empty sequence, Some(x) the one-element one.     *)
(***************************************************************************)
None == <<>>
Some(x) == <<x>>
IsSome(o) == Len(o) = 1
Unwrap(o) == o[1]

Min(a, b) == IF a <= b THEN a ELSE b

(***************************************************************************)
(* Values of the other variables while a specification does not use them.  *)
(***************************************************************************)
NoResponse == [type |-> "none"]
NoFrame == [reset |-> FALSE, outcome |-> "none", embedding |-> None, hit |-> FALSE,
            matches_before |-> 0, started |-> 0, hit_seen |-> FALSE]

CodecParked ==
    /\ k_message = None
    /\ k_decoded = None

HelperParked ==
    /\ h_env = None
    /\ h_run = None

DetectorParked ==
    /\ y_output = None
    /\ y_faces = None

MergeParked ==
    /\ m_pc = "off"
    /\ m_existing = None
    /\ m_new_embeddings = <<>>
    /\ m_new_qualities = <<>>
    /\ m_replace_weak = FALSE
    /\ m_out = None

EnvParked ==
    /\ config = None
    /\ store = None
    /\ camera = "closed"
    /\ now = 0

AuthParked ==
    /\ a_pc = "off"
    /\ a_request = None
    /\ a_user_data = None
    /\ a_state = None
    /\ a_start_time = 0
    /\ a_total_attempts = 0
    /\ a_response = NoResponse
    /\ a_last = NoFrame
    /\ a_hist = <<>>

ConnParked ==
    /\ inbox = None
    /\ wire = <<>>

DispatchParked ==
    /\ d_backlog = <<>>
    /\ d_current = None
    /\ d_served = <<>>
    /\ d_waited = {}
    /\ d_failed = {}
    /\ d_hungup = {}
    /\ d_stalled = {}

ServiceParked ==
    /\ s_pc = "off"
    /\ s_request = None
    /\ s_peer = 0
    /\ s_user_data = None
    /\ s_local = None
    /\ s_response = NoResponse
    /\ images = {}
    /\ s_trace = None

(***************************************************************************)
(* Embeddings.  Emb(v) is what the recognizer returns; an averaged         *)
(* embedding has the component sums as v and the count as d.               *)
(***************************************************************************)
Emb(v) == [v |-> v, d |-> 1]

RECURSIVE SumComponent(_, _, _)
SumComponent(embeddings, i, k) ==
    IF k > Len(embeddings) THEN 0
    ELSE embeddings[k].v[i] + SumComponent(embeddings, i, k + 1)

\* UserStore::average_embeddings, and the identical loops in service.rs
average_embeddings(embeddings) ==
    IF embeddings = <<>> THEN [v |-> <<>>, d |-> 1]
    ELSE [v |-> [i \in 1..Len(embeddings[1].v) |-> SumComponent(embeddings, i, 1)],
          d |-> Len(embeddings)]

(***************************************************************************)
(* UserStore::merge_user_data                                              *)
(***************************************************************************)
\* quality_indices.sort_by(|a, b| a.1.partial_cmp(&b.1)): a stable ascending sort
RECURSIVE InsertByQuality(_, _)
InsertByQuality(sorted, p) ==
    IF sorted = <<>> THEN <<p>>
    ELSE IF p[2] < Head(sorted)[2] THEN <<p>> \o sorted
    ELSE <<Head(sorted)>> \o InsertByQuality(Tail(sorted), p)

RECURSIVE SortedQualityIndices(_, _)
SortedQualityIndices(qualities, n) ==
    IF n = 0 THEN <<>>
    ELSE InsertByQuality(SortedQualityIndices(qualities, n - 1), <<n, qualities[n]>>)

quality_indices(qualities) == SortedQualityIndices(qualities, Len(qualities))

\* the inner `for &(idx, old_qual) in quality_indices.iter()`: the index of the
\* first entry the new sample beats, 0 when the loop ends without a break
RECURSIVE FindSlot(_, _, _, _)
FindSlot(qi, k, new_qual, room) ==
    IF k > Len(qi) THEN 0
    ELSE IF new_qual > qi[k][2] /\ room THEN qi[k][1]
    ELSE FindSlot(qi, k + 1, new_qual, room)

\* the outer `for (new_emb, new_qual) in new_embeddings.iter().zip(new_qualities.iter())`
RECURSIVE ReplaceLoop(_, _, _, _, _, _)
ReplaceLoop(existing, qi, new_embeddings, new_qualities, j, replaced_count) ==
    IF j > Min(Len(new_embeddings), Len(new_qualities))
    THEN [data |-> existing, replaced |-> replaced_count]
    ELSE LET idx == FindSlot(qi, 1, new_qualities[j], replaced_count < Len(new_embeddings))
         IN  IF idx # 0
             THEN ReplaceLoop([existing EXCEPT !.embeddings[idx] = new_embeddings[j],
                                               !.embedding_qualities[1][idx] = new_qualities[j]],
                              qi, new_embeddings, new_qualities, j + 1, replaced_count + 1)
             ELSE ReplaceLoop([existing EXCEPT !.embeddings = Append(@, new_embeddings[j]),
                                               !.embedding_qualities[1] = Append(@, new_qualities[j])],
                              qi, new_embeddings, new_qualities, j + 1, replaced_count)

\* a slip: the new samples are put in front of the stored ones
AppendAll_Prepend(existing, new_embeddings, new_qualities) ==
    [existing EXCEPT !.embeddings = new_embeddings \o @,
                     !.embedding_qualities =
                         IF IsSome(@) THEN Some(new_qualities \o Unwrap(@))
                         ELSE Some(new_qualities)]

\* the else branch: append everything
AppendAll(existing, new_embeddings, new_qualities) ==
    [existing EXCEPT !.embeddings = @ \o new_embeddings,
                     !.embedding_qualities =
                         IF IsSome(@) THEN Some(Unwrap(@) \o new_qualities)
                         ELSE Some(new_qualities)]

\* a slip: the final count is returned where the growth is meant
merge_user_data_AddedIsFinal(existing, new_embeddings, new_qualities, replace_weak) ==
    LET r == IF replace_weak /\ IsSome(existing.embedding_qualities)
             THEN ReplaceLoop(existing, quality_indices(Unwrap(existing.embedding_qualities)),
                              new_embeddings, new_qualities, 1, 0)
             ELSE [data |-> AppendAll(existing, new_embeddings, new_qualities), replaced |-> 0]
        merged == [r.data EXCEPT !.averaged_embedding = Some(average_embeddings(r.data.embeddings))]
    IN  [data |-> merged,
         added |-> Len(merged.embeddings),
         replaced |-> r.replaced]

merge_user_data(existing, new_embeddings, new_qualities, replace_weak) ==
    LET initial_count == Len(existing.embeddings)
        r == IF replace_weak /\ IsSome(existing.embedding_qualities)
             THEN ReplaceLoop(existing, quality_indices(Unwrap(existing.embedding_qualities)),
                              new_embeddings, new_qualities, 1, 0)
             ELSE [data |-> AppendAll(existing, new_embeddings, new_qualities), replaced |-> 0]
        merged == [r.data EXCEPT !.averaged_embedding = Some(average_embeddings(r.data.embeddings))]
    IN  [data |-> merged,
         added |-> Len(merged.embeddings) - initial_count,
         replaced |-> r.replaced]

(***************************************************************************)
(* SpecMerge: merge_user_data applied to every record and every batch of   *)
(* new samples within the bounds.                                          *)
(***************************************************************************)
\* quality scores in hundredths
QualityLevels == {50, 55, 60, 70, 90}

\* the i-th stored embedding and the j-th new one, all distinct
StoredEmb(i) == Emb(<<i, 0>>)
NewEmb(j) == Emb(<<0, j>>)

UserData(username, embeddings, qualities) ==
    [version |-> 1, username |-> username, embeddings |-> embeddings,
     averaged_embedding |-> Some(average_embeddings(embeddings)),
     embedding_qualities |-> qualities]

MergeInit ==
    /\ m_pc = "call"
    /\ \E n \in 1..MaxExisting :
         \E q \in [1..n -> QualityLevels], withQ \in BOOLEAN :
            m_existing = UserData("alice", [i \in 1..n |-> StoredEmb(i)],
                                  IF withQ THEN Some(q) ELSE None)
    /\ \E k \in 0..MaxNew :
         /\ m_new_qualities \in [1..k -> QualityLevels]
         /\ m_new_embeddings = [j \in 1..k |-> NewEmb(j)]
    /\ m_replace_weak \in BOOLEAN
    /\ m_out = [data |-> m_existing, added |-> 0, replaced |-> 0]
    /\ CodecParked
    /\ HelperParked
    /\ DetectorParked
    /\ EnvParked
    /\ AuthParked
    /\ ServiceParked
    /\ ConnParked
    /\ DispatchParked

MergeCall ==
    /\ m_pc = "call"
    /\ m_out' = merge_user_data(m_existing, m_new_embeddings, m_new_qualities, m_replace_weak)
    /\ m_pc' = "ret"
    /\ UNCHANGED <<m_existing, m_new_embeddings, m_new_qualities, m_replace_weak>>
    /\ UNCHANGED <<codecVars, helperVars, detectorVars, envVars, authVars, serviceVars, connVars,
                   dispatchVars>>

MergeNext == MergeCall

SpecMerge == MergeInit /\ [][MergeNext]_vars

(***************************************************************************)
(* recognizer::cosine_similarity.  A similarity dot / sqrt(nn) is kept as  *)
(* [dot, nn] with nn > 0; the denominators of the two vectors cancel.      *)
(***************************************************************************)
RECURSIVE DotFrom(_, _, _)
DotFrom(a, b, i) ==
    IF i > Min(Len(a), Len(b)) THEN 0 ELSE a[i] * b[i] + DotFrom(a, b, i + 1)

cosine_similarity(a, b) ==
    LET dot == DotFrom(a.v, b.v, 1)
        norm_a2 == DotFrom(a.v, a.v, 1)
        norm_b2 == DotFrom(b.v, b.v, 1)
    IN  IF norm_a2 = 0 \/ norm_b2 = 0 THEN [dot |-> 0, nn |-> 1]
        ELSE [dot |-> dot, nn |-> norm_a2 * norm_b2]

\* x < y for two similarities (f32 `<`), by cross-multiplying
SimLess(x, y) ==
    LET l == x.dot * x.dot * y.nn     \* (x * sqrt(x.nn * y.nn))^2
        r == y.dot * y.dot * x.nn     \* (y * sqrt(x.nn * y.nn))^2
    IN  IF x.dot < 0 /\ y.dot >= 0 THEN TRUE
        ELSE IF x.dot >= 0 /\ y.dot < 0 THEN FALSE
        ELSE IF x.dot >= 0 THEN l < r
        ELSE l > r

\* f32::max
SimMax(x, y) == IF SimLess(x, y) THEN y ELSE x

SimZero == [dot |-> 0, nn |-> 1]

RECURSIVE BestAgainst(_, _, _, _)
BestAgainst(best, probe, stored, i) ==
    IF i > Len(stored) THEN best
    ELSE BestAgainst(SimMax(best, cosine_similarity(probe, stored[i])), probe, stored, i + 1)

BestAgainstAverage(best, probe, user_data) ==
    IF IsSome(user_data.averaged_embedding)
    THEN SimMax(best, cosine_similarity(probe, Unwrap(user_data.averaged_embedding)))
    ELSE best

\* average_embeddings_buffer: the same loop as average_embeddings
average_embeddings_buffer(buffer) == average_embeddings(buffer)

\* a slip: the fused probe is compared whatever use_embedding_fusion says
calculate_best_similarity_AlwaysFused(embedding, embedding_buffer, user_data, use_fusion) ==
    LET single == BestAgainstAverage(BestAgainst(SimZero, embedding, user_data.embeddings, 1),
                                     embedding, user_data)
    IN  IF Len(embedding_buffer) >= 2
        THEN LET fused == average_embeddings_buffer(embedding_buffer)
             IN  BestAgainstAverage(BestAgainst(single, fused, user_data.embeddings, 1),
                                    fused, user_data)
        ELSE single

calculate_best_similarity(embedding, embedding_buffer, user_data, use_fusion) ==
    LET single == BestAgainstAverage(BestAgainst(SimZero, embedding, user_data.embeddings, 1),
                                     embedding, user_data)
    IN  IF use_fusion /\ Len(embedding_buffer) >= 2
        THEN LET fused == average_embeddings_buffer(embedding_buffer)
             IN  BestAgainstAverage(BestAgainst(single, fused, user_data.embeddings, 1),
                                    fused, user_data)
        ELSE single

(***************************************************************************)
(* generate_signature: SHA-256 over the little-endian f32 bytes of the     *)
(* embedding followed by the challenge.  The digest is kept as its length  *)
(* and its preimage (SHA-256 taken as collision free).                     *)
(***************************************************************************)
\* the IEEE-754 single precision bit pattern of the values embeddings hold
F32Bits(x) ==
    CASE x = 0 -> 0
      [] x = 1 -> 1065353216     \* 0x3F800000
      [] x = 2 -> 1073741824     \* 0x40000000
      [] x = 3 -> 1077936128     \* 0x40400000

\* a slip: the bytes in big-endian order
to_be_bytes(x) ==
    LET bits == F32Bits(x)
    IN  <<(bits \div 16777216) % 256, (bits \div 65536) % 256, (bits \div 256) % 256, bits % 256>>

\* f32::to_le_bytes
to_le_bytes(x) ==
    LET bits == F32Bits(x)
    IN  <<bits % 256, (bits \div 256) % 256, (bits \div 65536) % 256, (bits \div 16777216) % 256>>

RECURSIVE EmbeddingBytes(_, _)
EmbeddingBytes(v, i) ==
    IF i > Len(v) THEN <<>> ELSE to_le_bytes(v[i]) \o EmbeddingBytes(v, i + 1)

Sha256(message) == [len |-> 32, preimage |-> message]
EmptyBytes == [len |-> 0, preimage |-> <<>>]

generate_signature(embedding, challenge) ==
    Sha256(EmbeddingBytes(embedding.v, 1) \o challenge)

(***************************************************************************)
(* AuthenticationState and the steps of perform_authentication's loop.     *)
(***************************************************************************)
\* AuthenticationState::new, called at time t
NewAuthenticationState(t) ==
    [auth_attempts |-> <<>>, successful_matches |-> 0, embedding_buffer |-> <<>>,
     last_face_time |-> t, face_detected_once |-> FALSE]

\* `state.face_detected_once && state.last_face_time.elapsed() > lost_face_timeout`
FaceLost(state, t) ==
    state.face_detected_once /\ t - state.last_face_time > config.lost_face_timeout

\* a slip: only the sliding window is cleared, the counter and the buffer stay
ResetIfFaceLost_WindowOnly(state, t) ==
    IF FaceLost(state, t)
    THEN [state EXCEPT !.auth_attempts = <<>>, !.last_face_time = t,
                       !.face_detected_once = FALSE]
    ELSE state

\* `state = AuthenticationState::new(...)` when the face was lost
ResetIfFaceLost(state, t) ==
    IF FaceLost(state, t) THEN NewAuthenticationState(t) ELSE state

\* push_back, then one pop_front when over embedding_buffer_size
PushEmbedding(buffer, embedding) ==
    LET pushed == Append(buffer, embedding)
    IN  IF Len(pushed) > config.embedding_buffer_size THEN Tail(pushed) ELSE pushed

\* a slip: the popped hit is not taken off the counter
RECURSIVE MaintainWindow_NoDecrement(_)
MaintainWindow_NoDecrement(state) ==
    IF Len(state.auth_attempts) > config.n_total_attempts
    THEN MaintainWindow_NoDecrement([state EXCEPT !.auth_attempts = Tail(@)])
    ELSE state

\* `while state.auth_attempts.len() > n_total_attempts { pop_front ... }`
RECURSIVE MaintainWindow(_)
MaintainWindow(state) ==
    IF Len(state.auth_attempts) > config.n_total_attempts
    THEN MaintainWindow([state EXCEPT
             !.auth_attempts = Tail(@),
             !.successful_matches = IF Head(state.auth_attempts) THEN @ - 1 ELSE @])
    ELSE state

\* push_back(success), count it, then maintain the sliding window
UpdateWindow(state, success) ==
    MaintainWindow([state EXCEPT
        !.auth_attempts = Append(@, success),
        !.successful_matches = IF success THEN @ + 1 ELSE @])

\* a slip: K matches are not enough, K + 1 are asked for
KReached_Strict(state) == state.successful_matches > config.k_required_matches

\* `state.successful_matches >= config.auth.k_required_matches`
KReached(state) == state.successful_matches >= config.k_required_matches

AuthResponse(success, message, attempts, signature) ==
    [type |-> "Auth", success |-> success, message |-> message,
     attempts |-> attempts, signature |-> signature]

\* a slip: the failure reported as an authentication that did not succeed
ErrorResponse_AsAuthFailure(message) ==
    [type |-> "Auth", success |-> FALSE, message |-> message, attempts |-> 0,
     signature |-> EmptyBytes]

ErrorResponse(message) == [type |-> "Error", message |-> message]

(***************************************************************************)
(* The frames the service writes on a connection.  A frame is [tag, msg]:  *)
(* tag is None on the Authenticate path and Some(kind byte) on the enroll   *)
(* and enhance paths.  The history `wire` keeps a run of preview and       *)
(* status frames as the latest frame of the run.                           *)
(***************************************************************************)
MSG_TYPE_RESPONSE == 0
MSG_TYPE_STREAM == 1

PreviewFrame(ascii, captured, total) ==
    [type |-> "PreviewFrame", ascii |-> ascii, captured |-> captured, total |-> total]

StatusUpdate(message) == [type |-> "StatusUpdate", message |-> message]

Complete == [type |-> "Complete"]

IsPreviewOrStatus(frame) ==
    /\ frame.tag = Some(MSG_TYPE_STREAM)
    /\ frame.msg.type \in {"PreviewFrame", "StatusUpdate"}

\* stream.write_all succeeds as long as the client has not closed its end
stream_open == d_current = None \/ Unwrap(d_current) \notin d_hungup

\* stream.set_write_timeout(5 s): a write_all to a client that has stopped
\* reading returns Err once the socket buffer is full, with part of the frame
\* already in it
stream_stalled == d_current # None /\ Unwrap(d_current) \in d_stalled

\* what a write_all that failed part-way leaves on the socket: the head of
\* the frame, short of its last bytes
Torn(frame) == [tag |-> frame.tag, msg |-> [type |-> "Torn", whole |-> frame.msg]]

IsTorn(frame) == frame.msg.type = "Torn"

\* write_all(tag), write_all(len), write_all(data), flush, on a socket that is
\* open: the whole frame, or, when the client has stopped reading, the head
\* of the frame that fills the buffer and nothing of the frames after it
write_frame(w, frame) ==
    IF ~stream_stalled THEN Append(w, frame)
    ELSE IF w # <<>> /\ IsTorn(w[Len(w)]) THEN w
    ELSE Append(w, Torn(frame))

\* handle_client, Authenticate arm: the length and the payload, no kind byte
write_response(w, response) ==
    IF stream_open THEN write_frame(w, [tag |-> None, msg |-> response]) ELSE w

send_stream_message(w, msg) ==
    LET frame == [tag |-> Some(MSG_TYPE_STREAM), msg |-> msg]
    IN  IF ~stream_open THEN w
        ELSE IF stream_stalled THEN write_frame(w, frame)
        ELSE IF msg.type # "Complete" /\ w # <<>> /\ IsPreviewOrStatus(w[Len(w)])
        THEN [w EXCEPT ![Len(w)] = frame]
        ELSE Append(w, frame)

\* a slip: the terminal response written without its kind byte
send_final_response_Untagged(w, response) ==
    IF stream_open THEN write_frame(w, [tag |-> None, msg |-> response]) ELSE w

send_final_response(w, response) ==
    IF stream_open THEN write_frame(w, [tag |-> Some(MSG_TYPE_RESPONSE), msg |-> response]) ELSE w

\* a slip: Complete written after the terminal response
finish_with_stream_CompleteLast(w, enable_preview, response) ==
    IF enable_preview
    THEN send_stream_message(send_final_response(w, response), Complete)
    ELSE send_final_response(w, response)

\* the tail of handle_enroll_request_with_stream and
\* handle_enhance_request_with_stream, once the handler has returned:
\* `send_stream_message(stream, &StreamMessage::Complete)?` leaves before the
\* response when the write of Complete fails
finish_with_stream(w, enable_preview, response) ==
    IF enable_preview
    THEN IF stream_open /\ stream_stalled
         THEN send_stream_message(w, Complete)
         ELSE send_final_response(send_stream_message(w, Complete), response)
    ELSE send_final_response(w, response)

(***************************************************************************)
(* SpecAuth: one Authenticate request handled by handle_auth_request.      *)
(***************************************************************************)
Usernames == {"alice", "bob"}
Challenges == {<<7>>, <<9, 9>>}
SimilarityThreshold == [dot |-> 3, nn |-> 25]     \* 0.6

\* what the recognizer can return for a frame: near the enrolled face, far from it
FrameEmbeddings == {Emb(<<1, 0>>), Emb(<<0, 1>>)}

\* what one loop iteration can meet; "no_face" is detection returning no face,
\* "detect_error" is detection returning Err, which the loop treats alike
Frames ==
    {[kind |-> k, embedding |-> None] :
        k \in {"capture_failed", "no_face", "detect_error", "embedding_failed"}}
    \cup {[kind |-> "face", embedding |-> Some(e)] : e \in FrameEmbeddings}

EnrolledAlice == UserData("alice", <<Emb(<<1, 0>>), Emb(<<3, 1>>)>>, Some(<<80, 90>>))

\* auth.k_required_matches and auth.n_total_attempts when the file leaves them out
default_k_required == 2
default_n_attempts == 3

\* every (K, N) with the largest buffer, fusion on and the longest lost-face
\* timeout; every buffer size, fusion flag and lost-face timeout with the
\* default (K, N).  The longest timeout goes with the default (K, N), the
\* largest buffer and the longest lost-face timeout, fusion on or off; the
\* others time out once a window of MaxN entries has overflowed.
AuthConfigs ==
    {c \in [k_required_matches : 0..MaxN,
            n_total_attempts : 0..MaxN,
            embedding_buffer_size : 0..MaxF,
            use_embedding_fusion : BOOLEAN,
            lost_face_timeout : 1..MaxLost,
            timeout_seconds : {MaxN + 1, MaxTimeout},
            similarity_threshold : {SimilarityThreshold}] :
        LET largest == /\ c.embedding_buffer_size = MaxF
                       /\ c.use_embedding_fusion
                       /\ c.lost_face_timeout = MaxLost
            default == /\ c.k_required_matches = default_k_required
                       /\ c.n_total_attempts = default_n_attempts
        IN  /\ largest \/ default
            /\ c.timeout_seconds = MaxTimeout <=>
                  /\ default
                  /\ c.embedding_buffer_size = MaxF
                  /\ c.lost_face_timeout = MaxLost}

\* the Authenticate path does not look at the peer's uid
AuthRequests == [kind : {"Authenticate"}, username : Usernames, challenge : Challenges]

AuthInit ==
    /\ MergeParked
    /\ CodecParked
    /\ HelperParked
    /\ DetectorParked
    /\ ServiceParked
    /\ DispatchParked
    /\ inbox \in {Some([peer |-> 0, request |-> request]) : request \in AuthRequests}
    /\ wire = <<>>
    /\ config \in AuthConfigs
    /\ store = [u \in Usernames |-> IF u = "alice" THEN Some(EnrolledAlice) ELSE None]
    /\ camera = "closed"
    /\ now = 0
    /\ a_pc = "idle"
    /\ a_request = None
    /\ a_user_data = None
    /\ a_state = NewAuthenticationState(0)
    /\ a_start_time = 0
    /\ a_total_attempts = 0
    /\ a_response = NoResponse
    /\ a_last = NoFrame
    /\ a_hist = <<>>

\* a user file that fs::write left truncated: get_user fails to deserialize it
Corrupt == <<"truncated", "file">>

\* a slip: a user without a file is loaded as a record without embeddings
get_user_MissingIsEmpty(username) ==
    IF store[username] = None
    THEN [ok |-> TRUE, err |-> "",
          value |-> [version |-> 1, username |-> username, embeddings |-> <<>>,
                     averaged_embedding |-> None, embedding_qualities |-> None]]
    ELSE IF store[username] = Corrupt
    THEN [ok |-> FALSE, err |-> "Storage: Failed to deserialize", value |-> None]
    ELSE [ok |-> TRUE, err |-> "", value |-> Unwrap(store[username])]

\* UserStore::get_user: Err(UserNotFound) when the file does not exist,
\* Err(Storage) when it does not deserialize, Ok(record) otherwise
get_user(username) ==
    IF store[username] = None THEN [ok |-> FALSE, err |-> "UserNotFound", value |-> None]
    ELSE IF store[username] = Corrupt
    THEN [ok |-> FALSE, err |-> "Storage: Failed to deserialize", value |-> None]
    ELSE [ok |-> TRUE, err |-> "", value |-> Unwrap(store[username])]

\* a slip: an early return that keeps the camera
camera_after_NeverDropped(pc) == "open"

\* the camera is dropped on every return; it stays open while the loop runs
camera_after(pc) == IF pc = "loop" THEN "open" ELSE "closed"

\* a slip: the users directory is made afresh
new_with_paths_Afresh(files) == [u \in DOMAIN files |-> None]

\* UserStore::new_with_paths: fs::create_dir_all on the two directories, which
\* leaves every file in them as it is
new_with_paths(files) == files

\* handle_auth_request up to the loop: Camera::new, UserStore::new_with_paths,
\* get_user, AuthenticationState::new, camera.start_session
AuthBegin ==
    /\ a_pc = "idle"
    /\ IsSome(inbox)
    /\ Unwrap(inbox).request.kind = "Authenticate"
    /\ inbox' = None
    /\ \E camera_ok \in BOOLEAN, storage_ok \in BOOLEAN, session_ok \in BOOLEAN :
          LET username == Unwrap(inbox).request.username
              challenge == Unwrap(inbox).request.challenge
          IN
          /\ a_request' = [username |-> username, challenge |-> challenge]
          /\ IF ~camera_ok
             THEN /\ a_response' = ErrorResponse("Failed to initialize camera")
                  /\ a_pc' = "done"
                  /\ UNCHANGED <<a_user_data, a_state, a_start_time>>
             ELSE IF ~storage_ok
             THEN /\ a_response' = ErrorResponse("Authentication failed")
                  /\ a_pc' = "done"
                  /\ UNCHANGED <<a_user_data, a_state, a_start_time>>
             ELSE IF ~get_user(username).ok
             THEN /\ a_response' = AuthResponse(FALSE, "not enrolled", 0, EmptyBytes)
                  /\ a_pc' = "done"
                  /\ UNCHANGED <<a_user_data, a_state, a_start_time>>
             ELSE IF ~session_ok
             THEN /\ a_response' = ErrorResponse("Authentication failed")
                  /\ a_pc' = "done"
                  /\ a_user_data' = get_user(username).value
                  /\ a_state' = NewAuthenticationState(now)
                  /\ UNCHANGED a_start_time
             ELSE /\ a_user_data' = get_user(username).value
                  /\ a_state' = NewAuthenticationState(now)
                  /\ a_start_time' = now
                  /\ a_pc' = "loop"
                  /\ UNCHANGED a_response
          \* history: the call that failed, Camera::new or camera.start_session
          /\ a_last' = IF ~camera_ok THEN [NoFrame EXCEPT !.outcome = "camera_failed"]
                       ELSE IF storage_ok /\ get_user(username).ok /\ ~session_ok
                       THEN [NoFrame EXCEPT !.outcome = "session_failed"]
                       ELSE a_last
          /\ store' = IF camera_ok THEN new_with_paths(store) ELSE store
          /\ camera' = camera_after(a_pc')
          /\ wire' = IF a_pc' = "done" THEN write_response(wire, a_response') ELSE wire
    /\ UNCHANGED <<a_total_attempts, a_hist, config, now, standaloneVars, dispatchVars,
                   serviceVars>>

\* the loop condition `start_time.elapsed() < timeout`
WithinBudget_Inclusive(start_time, t, timeout) == t - start_time <= timeout

WithinBudget(start_time, t, timeout) == t - start_time < timeout

\* one iteration of `while start_time.elapsed() < timeout`.  An iteration takes
\* one tick; d_capture of it passes between the lost-face check and the moment
\* last_face_time is stamped (capture and detection), the rest afterwards
\* (embedding, comparison, the 50 ms sleep).
AuthIteration ==
    /\ a_pc = "loop"
    /\ WithinBudget(a_start_time, now, config.timeout_seconds)
    /\ \E frame \in Frames, d_capture \in 0..1 :
          /\ frame.kind \in {"capture_failed", "no_face", "detect_error"} => d_capture = 0
          /\ now' = now + 1
          /\ a_total_attempts' = a_total_attempts + 1
          /\ LET reset == FaceLost(a_state, now)
                 checked == ResetIfFaceLost(a_state, now)
                 seen == [checked EXCEPT !.face_detected_once = TRUE,
                                         !.last_face_time = now + d_capture]
                 hist == IF reset THEN <<>> ELSE a_hist
                 last == [reset |-> reset, outcome |-> frame.kind, embedding |-> frame.embedding,
                          hit |-> FALSE, matches_before |-> a_state.successful_matches,
                          started |-> now, hit_seen |-> a_last.hit_seen]
             IN  CASE frame.kind \in {"capture_failed", "no_face", "detect_error"} ->
                        /\ a_state' = checked
                        /\ a_last' = last
                        /\ a_hist' = hist
                        /\ UNCHANGED <<a_pc, a_response, camera>>
                   [] frame.kind = "embedding_failed" ->
                        /\ a_state' = seen
                        /\ a_last' = last
                        /\ a_hist' = hist
                        /\ UNCHANGED <<a_pc, a_response, camera>>
                   [] frame.kind = "face" ->
                        LET embedding == Unwrap(frame.embedding)
                            buffered == [seen EXCEPT
                                !.embedding_buffer = PushEmbedding(@, embedding)]
                            similarity == calculate_best_similarity(
                                embedding, buffered.embedding_buffer, a_user_data,
                                config.use_embedding_fusion)
                            success == SimLess(config.similarity_threshold, similarity)
                            updated == UpdateWindow(buffered, success)
                        IN  /\ a_state' = updated
                            /\ a_last' = [last EXCEPT !.hit = success, !.hit_seen = @ \/ success]
                            /\ a_hist' = Append(hist, success)
                            /\ IF KReached(updated)
                               THEN /\ a_response' = AuthResponse(TRUE, "authenticated",
                                           a_total_attempts + 1,
                                           generate_signature(embedding, a_request.challenge))
                                    /\ a_pc' = "done"
                                    /\ camera' = "closed"
                               ELSE UNCHANGED <<a_pc, a_response, camera>>
    /\ wire' = IF a_pc' = "done" THEN write_response(wire, a_response') ELSE wire
    /\ UNCHANGED <<a_request, a_user_data, a_start_time, config, store, standaloneVars, dispatchVars,
                   serviceVars, inbox>>

\* the loop condition fails: the timeout response
AuthTimeout ==
    /\ a_pc = "loop"
    /\ ~WithinBudget(a_start_time, now, config.timeout_seconds)
    /\ a_response' = AuthResponse(FALSE, "timeout", a_total_attempts, EmptyBytes)
    /\ a_pc' = "done"
    /\ camera' = "closed"
    /\ wire' = write_response(wire, a_response')
    /\ UNCHANGED <<a_request, a_user_data, a_state, a_start_time, a_total_attempts,
                   a_last, a_hist, config, store, now, standaloneVars, dispatchVars, serviceVars, inbox>>

AuthNext == AuthBegin \/ AuthIteration \/ AuthTimeout

SpecAuth == AuthInit /\ [][AuthNext]_vars

(***************************************************************************)
(* The enroll and enhance handlers of the service.                         *)
(***************************************************************************)
UnwrapOr(o, d) == IF IsSome(o) THEN Unwrap(o) ELSE d

\* the passwd database behind getpwuid_r: uid 1002 has no entry
Uids == {0, 1000, 1001, 1002}

get_username_from_uid(uid) ==
    CASE uid = 0 -> Some("root")
      [] uid = 1000 -> Some("alice")
      [] uid = 1001 -> Some("bob")
      [] OTHER -> None

EnrollDenied == "Permission denied: You can only enroll yourself"
EnhanceDenied == "Permission denied: You can only enhance your own enrollment"
IdentityUnverified == "Failed to verify user identity"

\* a slip: a uid that does not resolve is let through
authorization_check_UnresolvedPasses(uid, username, denied) ==
    IF uid # 0
    THEN LET requesting_user == get_username_from_uid(uid)
         IN  IF IsSome(requesting_user)
             THEN IF Unwrap(requesting_user) # username THEN Some(denied) ELSE None
             ELSE None
    ELSE None

\* a slip: any uid that resolves is let through, whatever name it resolves to
authorization_check_NameIgnored(uid, username, denied) ==
    IF uid # 0
    THEN LET requesting_user == get_username_from_uid(uid)
         IN  IF IsSome(requesting_user)
             THEN None
             ELSE Some(IdentityUnverified)
    ELSE None

\* the authorization check at the head of the four handlers: None when the
\* request may go on, Some(message) when it is turned away
authorization_check(uid, username, denied) ==
    IF uid # 0
    THEN LET requesting_user == get_username_from_uid(uid)
         IN  IF IsSome(requesting_user)
             THEN IF Unwrap(requesting_user) # username THEN Some(denied) ELSE None
             ELSE Some(IdentityUnverified)
    ELSE None

EnrollResponse(success, message) ==
    [type |-> "Enroll", success |-> success, message |-> message]

EnhanceResponse(success, message, embeddings_before, embeddings_after, replaced_count) ==
    [type |-> "Enhance", success |-> success, message |-> message,
     embeddings_before |-> embeddings_before, embeddings_after |-> embeddings_after,
     replaced_count |-> replaced_count]

\* UserStore::save_user_data: fs::write either completes, fails before it
\* touches the file, or fails after it truncated the file
SaveOutcomes == {"ok", "failed", "failed_truncated"}

save_user_data(user_data, outcome) ==
    CASE outcome = "ok" -> [store EXCEPT ![user_data.username] = Some(user_data)]
      [] outcome = "failed" -> store
      [] outcome = "failed_truncated" -> [store EXCEPT ![user_data.username] = Corrupt]

\* `while enrollment_dir.join(format!("enhance_{}.jpg", next_image_idx)).exists()`
RECURSIVE next_image_idx(_, _)
next_image_idx(username, k) ==
    IF <<username, "enhance", k>> \in images THEN next_image_idx(username, k + 1) ELSE k

\* a slip: the allowance of the preview stream given to every loop
enrollment_timeout_AlwaysFive(total_captures, capture_interval, streaming) ==
    total_captures * capture_interval * 5

\* num_captures * interval * 5 with the preview stream, * 3 without it
enrollment_timeout(total_captures, capture_interval, streaming) ==
    total_captures * capture_interval * (IF streaming THEN 5 ELSE 3)

\* a slip: every frame with a face passes
meets_minimum_requirements_Always(overall_score, min_quality) == TRUE

\* QualityMetrics::meets_minimum_requirements
meets_minimum_requirements(overall_score, min_quality) == overall_score >= min_quality

\* enrollment.min_enrollment_quality, enrollment.num_captures and
\* request.additional_captures when they are left out
default_enrollment_quality == 70
default_num_captures == 5
default_additional_captures == 3

(***************************************************************************)
(* SpecService: one Enroll or Enhance request handled by                   *)
(* handle_enroll_request_with_stream / handle_enhance_request_with_stream. *)
(***************************************************************************)
\* overall quality of a frame's face: below the minimum, above it, high
FrameQualities == {60, 75, 95}

\* what one capture loop iteration can meet
CaptureFrames ==
    {[kind |-> k, quality |-> 0, embedding_ok |-> FALSE] :
        k \in {"capture_failed", "no_face", "detect_error"}}
    \cup [kind : {"face"}, quality : FrameQualities, embedding_ok : BOOLEAN]

\* capture_interval_ms is one tick of the clock
ServiceConfigs ==
    [min_enrollment_quality : {default_enrollment_quality},
     num_captures : {Some(n) : n \in 0..MaxCaptures},
     capture_interval_ms : {Some(1)}]

EnrollRequests ==
    [kind : {"Enroll"}, username : Usernames, enable_preview : BOOLEAN,
     additional_captures : {None}, replace_weak : {FALSE}]

EnhanceRequests ==
    [kind : {"Enhance"}, username : Usernames, enable_preview : BOOLEAN,
     additional_captures : {None} \cup {Some(n) : n \in 0..MaxAdditional},
     replace_weak : BOOLEAN]

\* images_ok: whether frame.save succeeds in the enrollment directory during
\* this request (a failure is logged and the capture goes on)
NewLocals(total, t, before, idx, images_ok) ==
    [total |-> total, captured |-> 0, embeddings |-> <<>>, quality_scores |-> <<>>,
     start |-> t, last_capture_time |-> t, embeddings_before |-> before,
     next_image_idx |-> idx, images_ok |-> images_ok]

ServiceInit ==
    /\ MergeParked
    /\ CodecParked
    /\ HelperParked
    /\ DetectorParked
    /\ AuthParked
    /\ DispatchParked
    /\ inbox \in {Some([peer |-> uid, request |-> request]) :
                     uid \in Uids, request \in EnrollRequests \cup EnhanceRequests}
    /\ wire = <<>>
    /\ config \in ServiceConfigs
    /\ \E enrolled \in BOOLEAN :
          store = [u \in Usernames |->
                      IF u = "alice" /\ enrolled THEN Some(EnrolledAlice) ELSE None]
    /\ camera = "closed"
    /\ now = 0
    /\ s_pc = "idle"
    /\ s_request = None
    /\ s_peer = 0
    /\ s_user_data = None
    /\ s_local = NewLocals(0, 0, 0, 0, TRUE)
    /\ s_response = NoResponse
    /\ images = {}
    /\ s_trace = [invoked |-> FALSE, camera_opened |-> FALSE, store0 |-> store,
                  images0 |-> images, write_failed |-> None, camera_failure |-> "none"]

\* the request ends before the capture loop with this response
EndBeforeLoop(response, invoked, camera_opened) ==
    /\ s_response' = response
    /\ s_pc' = "done"
    /\ camera' = "closed"
    /\ s_trace' = [s_trace EXCEPT !.invoked = invoked, !.camera_opened = camera_opened]
    /\ wire' = finish_with_stream(wire, s_request'.enable_preview, response)
    /\ UNCHANGED <<s_user_data, s_local>>

\* handle_enroll_request_streaming and handle_enroll_request up to the loop:
\* the authorization check, UserStore::new_with_paths, the enrollment
\* directory, Camera::new, camera.start_session
EnrollBegin ==
    /\ s_pc = "idle"
    /\ IsSome(inbox)
    /\ Unwrap(inbox).request.kind = "Enroll"
    /\ inbox' = None
    /\ \E storage_ok \in BOOLEAN,
          dir_ok \in BOOLEAN, camera_ok \in BOOLEAN, session_ok \in BOOLEAN,
          images_ok \in BOOLEAN :
          LET request == Unwrap(inbox).request
              uid == Unwrap(inbox).peer
              denied == authorization_check(uid, request.username, EnrollDenied)
              total_captures == UnwrapOr(config.num_captures, default_num_captures)
          IN  /\ s_request' = request
              /\ s_peer' = uid
              /\ IF IsSome(denied)
                 THEN EndBeforeLoop(EnrollResponse(FALSE, Unwrap(denied)), FALSE, FALSE)
                 ELSE IF ~storage_ok
                 THEN EndBeforeLoop(EnrollResponse(FALSE, "Failed to initialize storage"),
                                    TRUE, FALSE)
                 ELSE IF ~dir_ok
                 THEN EndBeforeLoop(EnrollResponse(FALSE, "Failed to create enrollment directory"),
                                    TRUE, FALSE)
                 ELSE IF ~camera_ok
                 THEN /\ s_response' = EnrollResponse(FALSE, "Failed to initialize camera")
                      /\ s_pc' = "done"
                      /\ camera' = "closed"
                      /\ s_trace' = [s_trace EXCEPT !.invoked = TRUE,
                                                    !.camera_failure = "new"]
                      /\ wire' = finish_with_stream(wire, request.enable_preview,
                                                    s_response')
                      /\ UNCHANGED <<s_user_data, s_local>>
                 ELSE IF ~session_ok
                 THEN /\ s_response' = EnrollResponse(FALSE, "Failed to start camera")
                      /\ s_pc' = "done"
                      /\ camera' = "closed"
                      /\ s_trace' = [s_trace EXCEPT !.invoked = TRUE, !.camera_opened = TRUE,
                                                    !.camera_failure = "start_session"]
                      /\ wire' = finish_with_stream(wire, request.enable_preview,
                                                    s_response')
                      /\ UNCHANGED <<s_user_data, s_local>>
                 ELSE /\ s_local' = NewLocals(total_captures, now, 0, 0, images_ok)
                      /\ s_pc' = "loop"
                      /\ camera' = "open"
                      /\ s_trace' = [s_trace EXCEPT !.invoked = TRUE, !.camera_opened = TRUE]
                      /\ UNCHANGED <<s_user_data, s_response, wire>>
    /\ UNCHANGED <<config, store, now, images, standaloneVars, dispatchVars, authVars>>

\* handle_enhance_request_streaming and handle_enhance_request up to the loop:
\* the authorization check, UserStore::new_with_paths, get_user, the enrollment
\* directory, Camera::new, camera.start_session, the next image index
EnhanceBegin ==
    /\ s_pc = "idle"
    /\ IsSome(inbox)
    /\ Unwrap(inbox).request.kind = "Enhance"
    /\ inbox' = None
    /\ \E storage_ok \in BOOLEAN,
          dir_ok \in BOOLEAN, camera_ok \in BOOLEAN, session_ok \in BOOLEAN,
          images_ok \in BOOLEAN :
          LET request == Unwrap(inbox).request
              uid == Unwrap(inbox).peer
              denied == authorization_check(uid, request.username, EnhanceDenied)
              loaded == get_user(request.username)
              embeddings_before == Len(loaded.value.embeddings)
              additional_captures ==
                  UnwrapOr(request.additional_captures, default_additional_captures)
              Failed(message) ==
                  EnhanceResponse(FALSE, message, embeddings_before, embeddings_before, 0)
          IN  /\ s_request' = request
              /\ s_peer' = uid
              /\ IF IsSome(denied)
                 THEN EndBeforeLoop(EnhanceResponse(FALSE, Unwrap(denied), 0, 0, 0),
                                    FALSE, FALSE)
                 ELSE IF ~storage_ok
                 THEN EndBeforeLoop(EnhanceResponse(FALSE, "Failed to initialize storage", 0, 0, 0),
                                    TRUE, FALSE)
                 ELSE IF ~loaded.ok
                 THEN EndBeforeLoop(EnhanceResponse(FALSE, "User not found. Please enroll first.",
                                                    0, 0, 0),
                                    TRUE, FALSE)
                 ELSE IF ~dir_ok
                 THEN /\ s_response' = Failed("Failed to create enrollment directory")
                      /\ s_user_data' = Some(loaded.value)
                      /\ s_pc' = "done"
                      /\ camera' = "closed"
                      /\ s_trace' = [s_trace EXCEPT !.invoked = TRUE]
                      /\ wire' = finish_with_stream(wire, request.enable_preview,
                                                    s_response')
                      /\ UNCHANGED s_local
                 ELSE IF ~camera_ok
                 THEN /\ s_response' = Failed("Failed to initialize camera")
                      /\ s_user_data' = Some(loaded.value)
                      /\ s_pc' = "done"
                      /\ camera' = "closed"
                      /\ s_trace' = [s_trace EXCEPT !.invoked = TRUE,
                                                    !.camera_failure = "new"]
                      /\ wire' = finish_with_stream(wire, request.enable_preview,
                                                    s_response')
                      /\ UNCHANGED s_local
                 ELSE IF ~session_ok
                 THEN /\ s_response' = Failed("Failed to start camera")
                      /\ s_user_data' = Some(loaded.value)
                      /\ s_pc' = "done"
                      /\ camera' = "closed"
                      /\ s_trace' = [s_trace EXCEPT !.invoked = TRUE, !.camera_opened = TRUE,
                                                    !.camera_failure = "start_session"]
                      /\ wire' = finish_with_stream(wire, request.enable_preview,
                                                    s_response')
                      /\ UNCHANGED s_local
                 ELSE /\ s_user_data' = Some(loaded.value)
                      /\ s_local' = NewLocals(additional_captures, now, embeddings_before,
                                              next_image_idx(request.username, 0), images_ok)
                      /\ s_pc' = "loop"
                      /\ camera' = "open"
                      /\ s_trace' = [s_trace EXCEPT !.invoked = TRUE, !.camera_opened = TRUE]
                      /\ UNCHANGED <<s_response, wire>>
    /\ UNCHANGED <<config, store, now, images, standaloneVars, dispatchVars, authVars>>

\* `captured < total_captures && enrollment_start.elapsed() < enrollment_timeout`
LoopContinues ==
    /\ s_local.captured < s_local.total
    /\ now - s_local.start <
          enrollment_timeout(s_local.total, UnwrapOr(config.capture_interval_ms, 2000),
                             s_request.enable_preview)

\* the image file a capture is saved to
ImageFile ==
    IF s_request.kind = "Enroll"
    THEN <<s_request.username, "enroll", s_local.captured>>
    ELSE <<s_request.username, "enhance", s_local.next_image_idx + s_local.captured>>

\* the tail of both loops: save the image, push the sample, stamp the time
TakeCapture(quality, t) ==
    /\ images' = IF s_local.images_ok THEN images \cup {ImageFile} ELSE images
    /\ s_local' = [s_local EXCEPT
            !.embeddings = Append(@, NewEmb(s_local.captured + 1)),
            !.quality_scores = Append(@, quality),
            !.captured = @ + 1,
            !.last_capture_time = t]

\* history: the first send_stream_message of the request that returned Err,
\* with the number of captures taken before it
NoteWrite(trace) ==
    IF stream_open \/ IsSome(trace.write_failed) THEN trace
    ELSE [trace EXCEPT !.write_failed = Some(s_local.captured)]

\* one iteration of the capture loop of the two streaming handlers.  d_capture
\* passes between the loop condition and the interval check (capture,
\* detection, the preview frame), d_rest afterwards (embedding, the 50 ms
\* sleep); a `continue` skips the sleep.
CaptureIterationStreaming ==
    /\ s_pc = "loop"
    /\ s_request.enable_preview
    /\ LoopContinues
    /\ \E frame \in CaptureFrames, d_capture \in 0..1, d_rest \in 0..1 :
          LET t == now + d_capture
              capture_interval == UnwrapOr(config.capture_interval_ms, 2000)
              previewed == send_stream_message(wire,
                               PreviewFrame("frame", s_local.captured, s_local.total))
          IN  IF frame.kind = "capture_failed"
              THEN /\ d_rest = 0
                   /\ now' = t
                   /\ UNCHANGED <<s_local, images, wire, s_trace>>
              ELSE /\ s_trace' = NoteWrite(s_trace)
                   /\ IF /\ frame.kind = "face"
                         /\ t - s_local.last_capture_time >= capture_interval
                         /\ meets_minimum_requirements(frame.quality,
                                                       config.min_enrollment_quality)
                      THEN IF ~frame.embedding_ok
                           THEN /\ d_rest = 0
                                /\ now' = t
                                /\ wire' = previewed
                                /\ UNCHANGED <<s_local, images>>
                           ELSE /\ TakeCapture(frame.quality, t)
                                /\ now' = t + d_rest
                                /\ wire' = send_stream_message(previewed,
                                                               StatusUpdate("Captured image"))
                      ELSE /\ now' = t + d_rest
                           /\ wire' = previewed
                           /\ UNCHANGED <<s_local, images>>
    /\ UNCHANGED <<s_pc, s_request, s_peer, s_user_data, s_response,
                   config, store, camera, standaloneVars, dispatchVars, authVars, inbox>>

\* one iteration of the capture loop of the two handlers without preview:
\* every miss is a `continue`, there is no sleep, and the interval is not
\* asked for before the first capture
CaptureIteration ==
    /\ s_pc = "loop"
    /\ ~s_request.enable_preview
    /\ LoopContinues
    /\ \E frame \in CaptureFrames, d_capture \in 0..1 :
          LET t == now + d_capture
              capture_interval == UnwrapOr(config.capture_interval_ms, 2000)
          IN  /\ now' = t
              /\ IF /\ frame.kind = "face"
                    /\ ~(t - s_local.last_capture_time < capture_interval /\ s_local.captured > 0)
                    /\ meets_minimum_requirements(frame.quality, config.min_enrollment_quality)
                    /\ frame.embedding_ok
                 THEN TakeCapture(frame.quality, t)
                 ELSE UNCHANGED <<s_local, images>>
    /\ UNCHANGED <<s_pc, s_request, s_peer, s_user_data, s_response, s_trace,
                   config, store, camera, standaloneVars, dispatchVars, authVars, connVars>>

\* the record an enrollment builds from its captures
EnrolledRecord ==
    [version |-> 1, username |-> s_request.username, embeddings |-> s_local.embeddings,
     averaged_embedding |-> IF s_local.embeddings # <<>>
                            THEN Some(average_embeddings(s_local.embeddings)) ELSE None,
     embedding_qualities |-> Some(s_local.quality_scores)]

\* handle_enroll_request_streaming after the loop
EnrollFinishStreaming ==
    /\ s_pc = "loop"
    /\ s_request.kind = "Enroll"
    /\ s_request.enable_preview
    /\ ~LoopContinues
    /\ \E outcome \in SaveOutcomes :
          LET success == s_local.captured >= s_local.total
          IN  IF ~success
              THEN /\ outcome = "ok"
                   /\ s_response' = EnrollResponse(FALSE, "Enrollment failed: captures incomplete")
                   /\ UNCHANGED store
              ELSE /\ store' = save_user_data(EnrolledRecord, outcome)
                   /\ s_response' = IF outcome = "ok"
                                    THEN EnrollResponse(TRUE, "enrolled successfully")
                                    ELSE EnrollResponse(FALSE, "Failed to save user data")
    \* the enrollment report goes out as a preview frame before the early return
    /\ wire' = finish_with_stream(
                   send_stream_message(wire, PreviewFrame("report", s_local.captured,
                                                          s_local.total)),
                   TRUE, s_response')
    /\ s_trace' = NoteWrite(s_trace)
    /\ s_pc' = "done"
    /\ camera' = "closed"
    /\ UNCHANGED <<s_request, s_peer, s_user_data, s_local, images,
                   config, now, standaloneVars, dispatchVars, authVars, inbox>>

\* handle_enroll_request after the loop
EnrollFinish ==
    /\ s_pc = "loop"
    /\ s_request.kind = "Enroll"
    /\ ~s_request.enable_preview
    /\ ~LoopContinues
    /\ \E outcome \in SaveOutcomes :
          IF s_local.embeddings = <<>>
          THEN /\ outcome = "ok"
               /\ s_response' = EnrollResponse(FALSE, "Failed to capture any valid face images")
               /\ UNCHANGED store
          ELSE /\ store' = save_user_data(EnrolledRecord, outcome)
               /\ s_response' = IF outcome = "ok"
                                THEN EnrollResponse(TRUE, "Successfully enrolled user")
                                ELSE EnrollResponse(FALSE, "Failed to save enrollment data")
    /\ wire' = finish_with_stream(wire, FALSE, s_response')
    /\ s_pc' = "done"
    /\ camera' = "closed"
    /\ UNCHANGED <<s_request, s_peer, s_user_data, s_local, s_trace, images,
                   config, now, standaloneVars, dispatchVars, authVars, inbox>>

\* a slip: an enhancement without a capture counts as a success
enhance_success_NoCaptureNeeded(captured) == captured >= 0

\* `let success = captured > 0`
enhance_success(captured) == captured > 0

\* handle_enhance_request_streaming after the loop
EnhanceFinishStreaming ==
    /\ s_pc = "loop"
    /\ s_request.kind = "Enhance"
    /\ s_request.enable_preview
    /\ ~LoopContinues
    /\ \E outcome \in SaveOutcomes :
          LET success == enhance_success(s_local.captured)
              existing == Unwrap(s_user_data)
              merged == IF s_local.embeddings # <<>>
                        THEN merge_user_data(existing, s_local.embeddings,
                                             s_local.quality_scores, s_request.replace_weak)
                        ELSE [data |-> existing, added |-> 0, replaced |-> 0]
              embeddings_before == s_local.embeddings_before
          IN  /\ s_user_data' = Some(merged.data)
              /\ IF merged.added > 0
                 THEN store' = save_user_data(merged.data, outcome)
                 ELSE outcome = "ok" /\ UNCHANGED store
              /\ s_response' =
                    IF merged.added > 0 /\ outcome # "ok"
                    THEN EnhanceResponse(FALSE, "Failed to save enhanced enrollment data",
                                         embeddings_before, embeddings_before, 0)
                    ELSE IF success
                    THEN EnhanceResponse(TRUE, "Successfully enhanced enrollment",
                                         embeddings_before, Len(merged.data.embeddings),
                                         merged.replaced)
                    ELSE EnhanceResponse(FALSE,
                                         "Failed to capture any valid face images for enhancement",
                                         embeddings_before, embeddings_before, 0)
              \* a failed save returns before the enhancement report is sent
              /\ wire' = finish_with_stream(
                             IF merged.added > 0 /\ outcome # "ok"
                             THEN wire
                             ELSE send_stream_message(wire,
                                      PreviewFrame("report", s_local.captured, s_local.total)),
                             TRUE, s_response')
    /\ s_pc' = "done"
    /\ camera' = "closed"
    /\ UNCHANGED <<s_request, s_peer, s_local, s_trace, images,
                   config, now, standaloneVars, dispatchVars, authVars, inbox>>

\* handle_enhance_request after the loop
EnhanceFinish ==
    /\ s_pc = "loop"
    /\ s_request.kind = "Enhance"
    /\ ~s_request.enable_preview
    /\ ~LoopContinues
    /\ \E outcome \in SaveOutcomes :
          LET existing == Unwrap(s_user_data)
              merged == merge_user_data(existing, s_local.embeddings,
                                        s_local.quality_scores, s_request.replace_weak)
              embeddings_before == s_local.embeddings_before
          IN  IF s_local.embeddings = <<>>
              THEN /\ outcome = "ok"
                   /\ s_response' =
                         EnhanceResponse(FALSE,
                                         "Failed to capture any valid face images for enhancement",
                                         embeddings_before, embeddings_before, 0)
                   /\ UNCHANGED <<store, s_user_data>>
              ELSE /\ s_user_data' = Some(merged.data)
                   /\ store' = save_user_data(merged.data, outcome)
                   /\ s_response' =
                         IF outcome = "ok"
                         THEN EnhanceResponse(TRUE, "Successfully enhanced enrollment",
                                              embeddings_before, Len(merged.data.embeddings),
                                              merged.replaced)
                         ELSE EnhanceResponse(FALSE, "Failed to save enhanced enrollment data",
                                              embeddings_before, embeddings_before, 0)
    /\ wire' = finish_with_stream(wire, FALSE, s_response')
    /\ s_pc' = "done"
    /\ camera' = "closed"
    /\ UNCHANGED <<s_request, s_peer, s_local, s_trace, images,
                   config, now, standaloneVars, dispatchVars, authVars, inbox>>

ServiceNext ==
    \/ EnrollBegin
    \/ EnhanceBegin
    \/ CaptureIterationStreaming
    \/ CaptureIteration
    \/ EnrollFinishStreaming
    \/ EnrollFinish
    \/ EnhanceFinishStreaming
    \/ EnhanceFinish

SpecService == ServiceInit /\ [][ServiceNext]_vars

\* merge_user_data called on its own, and called by the enhance handlers
EnhanceInit == MergeInit \/ ServiceInit

EnhanceNext == MergeNext \/ ServiceNext

SpecEnhance == EnhanceInit /\ [][EnhanceNext]_vars

\* a turn of a capture loop takes time: the frame grab waits for the device,
\* the streaming loops sleep 50 ms
ClockAdvances == (CaptureIteration \/ CaptureIterationStreaming) /\ now' > now

\* the code after a capture loop
ServiceFinish == EnrollFinishStreaming \/ EnrollFinish \/ EnhanceFinishStreaming \/ EnhanceFinish

\* the requests of one enrolled user, sent by root
FairInit ==
    /\ ServiceInit
    /\ Unwrap(inbox).peer = 0
    /\ Unwrap(inbox).request.username = "alice"
    /\ Unwrap(inbox).request.kind = "Enhance" =>
          /\ Unwrap(inbox).request.additional_captures = Some(MaxAdditional)
          /\ ~Unwrap(inbox).request.replace_weak
    /\ config.num_captures = Some(2)
    /\ IsSome(store["alice"])

\* the handler keeps running, and the clock with it
FairService ==
    FairInit /\ [][ServiceNext]_vars /\ WF_vars(ClockAdvances) /\ WF_vars(ServiceFinish)

(***************************************************************************)
(* The wire format: bincode with fixed-width little-endian integers, a     *)
(* u32 variant index for an enum, a u64 length before a String or Vec.     *)
(* A text is one symbol, its place in Phrases.  A digest stands as the     *)
(* message it was computed from (SHA-256 is kept symbolic).  The timestamp *)
(* of an AuthResponse is not part of the model.  The model checker's ints  *)
(* end at 2^31 - 1: a decoded integer above that is read as 2^31 - 1 (the  *)
(* readers only compare it with 1 MiB and with the bytes at hand).         *)
(***************************************************************************)
MaxMessageLen == 1048576

Phrases ==
    <<EnrollDenied, EnhanceDenied, IdentityUnverified,
      "not enrolled", "timeout", "authenticated", "Authentication failed",
      "Failed to initialize camera", "Failed to initialize storage",
      "Failed to create enrollment directory", "Failed to start camera",
      "Enrollment failed: captures incomplete", "enrolled successfully",
      "Failed to save user data", "Failed to capture any valid face images",
      "Successfully enrolled user", "Failed to save enrollment data",
      "User not found. Please enroll first.",
      "Failed to save enhanced enrollment data", "Successfully enhanced enrollment",
      "Failed to capture any valid face images for enhancement",
      "Captured image", "frame", "report", "alice", "bob">>

u32_to_le_bytes(n) ==
    <<n % 256, (n \div 256) % 256, (n \div 65536) % 256, (n \div 16777216) % 256>>

u32_from_le_bytes(b) ==
    IF b[4] >= 128 THEN 2147483647
    ELSE b[1] + 256 * b[2] + 65536 * b[3] + 16777216 * b[4]

u64_to_le_bytes_Narrow(n) == u32_to_le_bytes(n)

u64_to_le_bytes(n) == u32_to_le_bytes(n) \o <<0, 0, 0, 0>>

u64_from_le_bytes(b) ==
    IF \E i \in 5..8 : b[i] # 0 THEN 2147483647 ELSE u32_from_le_bytes(SubSeq(b, 1, 4))

ser_bool(x) == <<IF x THEN 1 ELSE 0>>
ser_string(s) == u64_to_le_bytes(1) \o <<CHOOSE i \in 1..Len(Phrases) : Phrases[i] = s>>
ser_bytes(digest) == u64_to_le_bytes(Len(digest.preimage)) \o digest.preimage

\* bincode::serialize of a Response or a StreamMessage
serialize(msg) ==
    CASE msg.type = "Auth" ->
            u32_to_le_bytes(0) \o ser_bool(msg.success) \o ser_string(msg.message)
                \o u32_to_le_bytes(msg.attempts) \o ser_bytes(msg.signature)
      [] msg.type = "Enroll" ->
            u32_to_le_bytes(1) \o ser_bool(msg.success) \o ser_string(msg.message)
      [] msg.type = "Enhance" ->
            u32_to_le_bytes(2) \o ser_bool(msg.success) \o ser_string(msg.message)
                \o u64_to_le_bytes(msg.embeddings_before)
                \o u64_to_le_bytes(msg.embeddings_after)
                \o u64_to_le_bytes(msg.replaced_count)
      [] msg.type = "Error" -> u32_to_le_bytes(3) \o ser_string(msg.message)
      [] msg.type = "PreviewFrame" ->
            u32_to_le_bytes(0) \o ser_string(msg.ascii) \o u64_to_le_bytes(msg.captured)
                \o u64_to_le_bytes(msg.total)
      [] msg.type = "StatusUpdate" -> u32_to_le_bytes(1) \o ser_string(msg.message)
      [] msg.type = "Complete" -> u32_to_le_bytes(2)

\* what a reader returns: the value read and the bytes left, or a failure
Failure == [ok |-> FALSE, value |-> 0, rest |-> <<>>]
Read(value, rest) == [ok |-> TRUE, value |-> value, rest |-> rest]
Drop(b, n) == SubSeq(b, n + 1, Len(b))

de_u32(b) == IF Len(b) < 4 THEN Failure ELSE Read(u32_from_le_bytes(b), Drop(b, 4))
de_u64(b) == IF Len(b) < 8 THEN Failure ELSE Read(u64_from_le_bytes(b), Drop(b, 8))
de_bool(b) ==
    IF Len(b) < 1 THEN Failure
    ELSE IF b[1] \notin {0, 1} THEN Failure
    ELSE Read(b[1] = 1, Drop(b, 1))

de_string(b) ==
    LET n == de_u64(b)
    IN  IF ~n.ok THEN Failure
        ELSE IF Len(n.rest) < n.value \/ n.value # 1 THEN Failure
        ELSE IF n.rest[1] \notin 1..Len(Phrases) THEN Failure
        ELSE Read(Phrases[n.rest[1]], Drop(n.rest, 1))

de_bytes(b) ==
    LET n == de_u64(b)
    IN  IF ~n.ok THEN Failure
        ELSE IF Len(n.rest) < n.value THEN Failure
        ELSE Read(IF n.value = 0 THEN EmptyBytes ELSE Sha256(SubSeq(n.rest, 1, n.value)),
                  Drop(n.rest, n.value))

\* bincode::deserialize::<Response>; bytes after the value are ignored
deserialize_Response(b) ==
    LET variant == de_u32(b)
    IN  IF ~variant.ok THEN Failure
        ELSE IF variant.value = 3
        THEN LET message == de_string(variant.rest)
             IN  IF ~message.ok THEN Failure
                 ELSE Read(ErrorResponse(message.value), message.rest)
        ELSE IF variant.value \notin {0, 1, 2} THEN Failure
        ELSE LET success == de_bool(variant.rest)
                 message == de_string(success.rest)
             IN  IF ~success.ok THEN Failure
                 ELSE IF ~message.ok THEN Failure
                 ELSE IF variant.value = 1
                 THEN Read(EnrollResponse(success.value, message.value), message.rest)
                 ELSE IF variant.value = 0
                 THEN LET attempts == de_u32(message.rest)
                          signature == de_bytes(attempts.rest)
                      IN  IF ~attempts.ok THEN Failure
                          ELSE IF ~signature.ok THEN Failure
                          ELSE Read(AuthResponse(success.value, message.value,
                                                 attempts.value, signature.value),
                                    signature.rest)
                 ELSE LET embeddings_before == de_u64(message.rest)
                          embeddings_after == de_u64(embeddings_before.rest)
                          replaced_count == de_u64(embeddings_after.rest)
                      IN  IF ~embeddings_before.ok THEN Failure
                          ELSE IF ~embeddings_after.ok THEN Failure
                          ELSE IF ~replaced_count.ok THEN Failure
                          ELSE Read(EnhanceResponse(success.value, message.value,
                                                    embeddings_before.value,
                                                    embeddings_after.value,
                                                    replaced_count.value),
                                    replaced_count.rest)

\* bincode::deserialize::<StreamMessage>
deserialize_StreamMessage(b) ==
    LET variant == de_u32(b)
    IN  IF ~variant.ok THEN Failure
        ELSE IF variant.value = 2 THEN Read(Complete, variant.rest)
        ELSE IF variant.value = 1
        THEN LET message == de_string(variant.rest)
             IN  IF ~message.ok THEN Failure
                 ELSE Read(StatusUpdate(message.value), message.rest)
        ELSE IF variant.value = 0
        THEN LET ascii == de_string(variant.rest)
                 captured == de_u64(ascii.rest)
                 total == de_u64(captured.rest)
             IN  IF ~ascii.ok THEN Failure
                 ELSE IF ~captured.ok THEN Failure
                 ELSE IF ~total.ok THEN Failure
                 ELSE Read(PreviewFrame(ascii.value, captured.value, total.value),
                           total.rest)
        ELSE Failure

ser_vec(bytes) == u64_to_le_bytes(Len(bytes)) \o bytes
ser_option_u32(o) == IF IsSome(o) THEN <<1>> \o u32_to_le_bytes(Unwrap(o)) ELSE <<0>>

\* bincode::serialize of a Request.  An EnrollRequest has the fields username
\* and enable_preview only.
serialize_Request(request) ==
    CASE request.kind = "Authenticate" ->
            u32_to_le_bytes(0) \o ser_string(request.username) \o ser_vec(request.challenge)
      [] request.kind = "Enroll" ->
            u32_to_le_bytes(1) \o ser_string(request.username)
                \o ser_bool(request.enable_preview)
      [] request.kind = "Enhance" ->
            u32_to_le_bytes(2) \o ser_string(request.username)
                \o ser_option_u32(request.additional_captures)
                \o ser_bool(request.replace_weak) \o ser_bool(request.enable_preview)

de_vec(b) ==
    LET n == de_u64(b)
    IN  IF ~n.ok THEN Failure
        ELSE IF Len(n.rest) < n.value THEN Failure
        ELSE Read(SubSeq(n.rest, 1, n.value), Drop(n.rest, n.value))

de_option_u32(b) ==
    IF Len(b) < 1 THEN Failure
    ELSE IF b[1] = 0 THEN Read(None, Drop(b, 1))
    ELSE IF b[1] = 1
    THEN LET x == de_u32(Drop(b, 1))
         IN  IF ~x.ok THEN Failure ELSE Read(Some(x.value), x.rest)
    ELSE Failure

\* bincode::deserialize::<Request>; bytes after the value are ignored
deserialize_Request(b) ==
    LET variant == de_u32(b)
        username == de_string(variant.rest)
    IN  IF ~variant.ok THEN Failure
        ELSE IF variant.value \notin {0, 1, 2} THEN Failure
        ELSE IF ~username.ok THEN Failure
        ELSE IF variant.value = 0
        THEN LET challenge == de_vec(username.rest)
             IN  IF ~challenge.ok THEN Failure
                 ELSE Read([kind |-> "Authenticate", username |-> username.value,
                            challenge |-> challenge.value], challenge.rest)
        ELSE IF variant.value = 1
        THEN LET enable_preview == de_bool(username.rest)
             IN  IF ~enable_preview.ok THEN Failure
                 ELSE Read([kind |-> "Enroll", username |-> username.value,
                            enable_preview |-> enable_preview.value,
                            additional_captures |-> None, replace_weak |-> FALSE],
                           enable_preview.rest)
        ELSE LET additional_captures == de_option_u32(username.rest)
                 replace_weak == de_bool(additional_captures.rest)
                 enable_preview == de_bool(replace_weak.rest)
             IN  IF ~additional_captures.ok THEN Failure
                 ELSE IF ~replace_weak.ok THEN Failure
                 ELSE IF ~enable_preview.ok THEN Failure
                 ELSE Read([kind |-> "Enhance", username |-> username.value,
                            enable_preview |-> enable_preview.value,
                            additional_captures |-> additional_captures.value,
                            replace_weak |-> replace_weak.value],
                           enable_preview.rest)

\* the bytes of one frame: the kind byte if there is one, the length, the payload
FrameBytes(frame) ==
    LET msg == IF IsTorn(frame) THEN frame.msg.whole ELSE frame.msg
        payload == serialize(msg)
        whole == frame.tag \o u32_to_le_bytes(Len(payload)) \o payload
    IN  IF IsTorn(frame) THEN SubSeq(whole, 1, Len(whole) - 1) ELSE whole

RECURSIVE WireBytes(_)
WireBytes(w) == IF w = <<>> THEN <<>> ELSE FrameBytes(Head(w)) \o WireBytes(Tail(w))

(***************************************************************************)
(* The client's readers (src/src/service/client.rs), run on the bytes the  *)
(* service wrote.                                                          *)
(***************************************************************************)
\* ServiceClient::read_response: one untagged frame
read_response(bytes) ==
    LET response_len == de_u32(bytes)
    IN  IF ~response_len.ok THEN Failure
        ELSE IF response_len.value > MaxMessageLen THEN Failure
        ELSE IF Len(response_len.rest) < response_len.value THEN Failure
        ELSE LET response == deserialize_Response(
                                 SubSeq(response_len.rest, 1, response_len.value))
             IN  IF ~response.ok THEN Failure
                 ELSE Read(response.value, Drop(response_len.rest, response_len.value))

\* a slip: every kind byte but MSG_TYPE_STREAM is taken for a final response
read_tagged_UnknownIsResponse(bytes) ==
    IF Len(bytes) < 1 THEN Failure
    ELSE LET msg_len == de_u32(Drop(bytes, 1))
         IN  IF ~msg_len.ok THEN Failure
             ELSE IF msg_len.value > MaxMessageLen THEN Failure
             ELSE IF Len(msg_len.rest) < msg_len.value THEN Failure
             ELSE LET msg_buf == SubSeq(msg_len.rest, 1, msg_len.value)
                      rest == Drop(msg_len.rest, msg_len.value)
                      decoded == IF bytes[1] = MSG_TYPE_STREAM
                                 THEN deserialize_StreamMessage(msg_buf)
                                 ELSE deserialize_Response(msg_buf)
                  IN  IF ~decoded.ok THEN Failure
                      ELSE Read([kind |-> IF bytes[1] = MSG_TYPE_STREAM THEN MSG_TYPE_STREAM
                                          ELSE MSG_TYPE_RESPONSE,
                                 msg |-> decoded.value], rest)

\* one turn of the loop of read_enrollment_with_preview: the kind byte, the
\* length, the bound of 1 MiB, the payload, the decoder the kind selects
read_tagged(bytes) ==
    IF Len(bytes) < 1 THEN Failure
    ELSE LET msg_len == de_u32(Drop(bytes, 1))
         IN  IF ~msg_len.ok THEN Failure
             ELSE IF msg_len.value > MaxMessageLen THEN Failure
             ELSE IF Len(msg_len.rest) < msg_len.value THEN Failure
             ELSE LET msg_buf == SubSeq(msg_len.rest, 1, msg_len.value)
                      rest == Drop(msg_len.rest, msg_len.value)
                      decoded == IF bytes[1] = MSG_TYPE_STREAM
                                 THEN deserialize_StreamMessage(msg_buf)
                                 ELSE IF bytes[1] = MSG_TYPE_RESPONSE
                                 THEN deserialize_Response(msg_buf)
                                 ELSE Failure
                  IN  IF ~decoded.ok THEN Failure
                      ELSE Read([kind |-> bytes[1], msg |-> decoded.value], rest)

\* ServiceClient::read_enrollment_with_preview: tagged frames up to the
\* first terminal one
RECURSIVE read_enrollment_with_preview(_)
read_enrollment_with_preview(bytes) ==
    LET frame == read_tagged(bytes)
    IN  IF ~frame.ok THEN Failure
        ELSE IF frame.value.kind = MSG_TYPE_STREAM
        THEN read_enrollment_with_preview(frame.rest)
        ELSE Read(frame.value.msg, frame.rest)

\* ServiceClient::send_request: the length, then the payload, no kind byte
send_request(request) ==
    LET request_data == serialize_Request(request)
    IN  u32_to_le_bytes(Len(request_data)) \o request_data

\* handle_client reading the request: read_exact of the length, the bound of
\* 1 MiB, read_exact of the payload, bincode::deserialize
read_request(bytes) ==
    LET request_len == de_u32(bytes)
    IN  IF ~request_len.ok THEN Failure
        ELSE IF request_len.value > MaxMessageLen THEN Failure
        ELSE IF Len(request_len.rest) < request_len.value THEN Failure
        ELSE LET request == deserialize_Request(
                                SubSeq(request_len.rest, 1, request_len.value))
             IN  IF ~request.ok THEN Failure
                 ELSE Read(request.value, Drop(request_len.rest, request_len.value))

\* the reader the client uses for each request: test_auth reads with
\* read_response, enroll and enhance with read_enrollment_with_preview
client_reads(kind, bytes) ==
    IF kind = "Authenticate" THEN read_response(bytes)
    ELSE read_enrollment_with_preview(bytes)

(***************************************************************************)
(* SpecCodec: one message through one channel of the protocol.  A request  *)
(* goes from ServiceClient::send_request to handle_client; a response goes *)
(* from handle_client's plain write to read_response, or with its kind     *)
(* byte from send_final_response to read_enrollment_with_preview; a stream *)
(* message goes from send_stream_message to read_enrollment_with_preview.  *)
(***************************************************************************)
CodecRequests ==
    {[kind |-> "Authenticate", username |-> u, challenge |-> c] :
        u \in Usernames, c \in Challenges \cup {<<>>, <<0, 255, 0>>}}
    \cup {[kind |-> "Enroll", username |-> u, enable_preview |-> p,
           additional_captures |-> None, replace_weak |-> FALSE] :
        u \in Usernames, p \in BOOLEAN}
    \cup {[kind |-> "Enhance", username |-> u, enable_preview |-> p,
           additional_captures |-> a, replace_weak |-> w] :
        u \in Usernames, p \in BOOLEAN, w \in BOOLEAN,
        a \in {None, Some(0), Some(1), Some(300), Some(16777216)}}

CodecResponses ==
    {AuthResponse(ok, m, n, sig) :
        ok \in BOOLEAN, m \in {"authenticated", "timeout", "not enrolled"},
        n \in {0, 1, 256},
        sig \in {EmptyBytes, Sha256(<<1, 0, 7>>), Sha256(<<9>>)}}
    \cup {EnrollResponse(ok, m) :
        ok \in BOOLEAN, m \in {"Successfully enrolled user", EnrollDenied}}
    \cup {EnhanceResponse(ok, m, before, after, replaced) :
        ok \in BOOLEAN, m \in {"Successfully enhanced enrollment", EnhanceDenied},
        before \in {0, 3}, after \in {0, 5, 65536}, replaced \in {0, 2}}
    \cup {ErrorResponse(m) : m \in {"Failed to initialize camera", "Authentication failed"}}

CodecStreamMessages ==
    {PreviewFrame(a, c, t) : a \in {"frame", "report"}, c \in {0, 1, 256}, t \in {0, 5}}
    \cup {StatusUpdate(m) : m \in {"Captured image", "Failed to start camera"}}
    \cup {Complete}

CodecMessages ==
    {[channel |-> "request", msg |-> m] : m \in CodecRequests}
    \cup {[channel |-> ch, msg |-> m] : ch \in {"response", "final"}, m \in CodecResponses}
    \cup {[channel |-> "stream", msg |-> m] : m \in CodecStreamMessages}

\* the bytes the sender of the channel puts on the socket
encode(channel, msg) ==
    CASE channel = "request" -> send_request(msg)
      [] channel = "response" -> FrameBytes([tag |-> None, msg |-> msg])
      [] channel = "final" -> FrameBytes([tag |-> Some(MSG_TYPE_RESPONSE), msg |-> msg])
      [] channel = "stream" -> FrameBytes([tag |-> Some(MSG_TYPE_STREAM), msg |-> msg])

\* what the receiver of the channel reads from them
decode(channel, bytes) ==
    CASE channel = "request" -> read_request(bytes)
      [] channel = "response" -> read_response(bytes)
      [] channel \in {"final", "stream"} -> read_tagged(bytes)

CodecInit ==
    /\ k_message \in CodecMessages
    /\ k_decoded = None
    /\ MergeParked
    /\ HelperParked
    /\ DetectorParked
    /\ EnvParked
    /\ AuthParked
    /\ ServiceParked
    /\ ConnParked
    /\ DispatchParked

Transmit ==
    /\ k_decoded = None
    /\ k_decoded' = Some(decode(k_message.channel, encode(k_message.channel, k_message.msg)))
    /\ UNCHANGED <<k_message, mergeVars, helperVars, detectorVars, envVars, authVars, serviceVars,
                   connVars, dispatchVars>>

CodecNext == Transmit

SpecCodec == CodecInit /\ [][CodecNext]_vars

(***************************************************************************)
(* SpecReader: ServiceClient::read_enrollment_with_preview run on the      *)
(* bytes of a sequence of frames, well-formed or not, followed by the end  *)
(* of the stream.                                                          *)
(***************************************************************************)
MaxFrames == 3      \* most frames on the socket when the client reads

\* a frame as the peer wrote it: its kind byte, its message, and whether the
\* length it declares is the payload's or one byte above 1 MiB
SessionFrames ==
    {[tag |-> MSG_TYPE_STREAM, msg |-> m, oversize |-> FALSE] :
        m \in {PreviewFrame("frame", 1, 2), StatusUpdate("Captured image"), Complete}}
    \cup {[tag |-> MSG_TYPE_RESPONSE, msg |-> m, oversize |-> FALSE] :
        m \in {EnrollResponse(TRUE, "Successfully enrolled user"),
               EnhanceResponse(FALSE, EnhanceDenied, 0, 0, 0)}}
    \cup {[tag |-> 2, msg |-> EnrollResponse(TRUE, "Successfully enrolled user"),
           oversize |-> FALSE],
          [tag |-> MSG_TYPE_STREAM, msg |-> StatusUpdate("Captured image"),
           oversize |-> TRUE]}

SessionFrameBytes(frame) ==
    LET payload == serialize(frame.msg)
    IN  <<frame.tag>>
        \o u32_to_le_bytes(IF frame.oversize THEN MaxMessageLen + 1 ELSE Len(payload))
        \o payload

RECURSIVE SessionBytes(_)
SessionBytes(frames) ==
    IF frames = <<>> THEN <<>>
    ELSE SessionFrameBytes(Head(frames)) \o SessionBytes(Tail(frames))

ReaderInit ==
    /\ k_message \in {[channel |-> "session", msg |-> frames] :
                          frames \in UNION {[1..n -> SessionFrames] : n \in 0..MaxFrames}}
    /\ k_decoded = None
    /\ MergeParked
    /\ HelperParked
    /\ DetectorParked
    /\ EnvParked
    /\ AuthParked
    /\ ServiceParked
    /\ ConnParked
    /\ DispatchParked

ReadSession ==
    /\ k_decoded = None
    /\ k_decoded' = Some(read_enrollment_with_preview(SessionBytes(k_message.msg)))
    /\ UNCHANGED <<k_message, mergeVars, helperVars, detectorVars, envVars, authVars, serviceVars,
                   connVars, dispatchVars>>

ReaderNext == ReadSession

SpecReader == ReaderInit /\ [][ReaderNext]_vars

(***************************************************************************)
(* SpecHelper: the two authentication helpers of the login stack, the      *)
(* binary linuxsup-auth (src/src/bin/linuxsup-auth.rs) and the PAM module  *)
(* (src/pam_module/src/lib.rs), each run once in an environment.  The      *)
(* environment says which variables are set and what the call will meet.   *)
(* linuxsup-auth hands the request to auth::authenticate_user_system and   *)
(* only looks at its Result, so for it `meets` is that Result.             *)
(***************************************************************************)
HelperResults == {"Ok(true)", "Ok(false)", "Err"}

PamMeets ==
    {"connect_failed", "io_error", "response_too_large", "decode_error",
     "empty_embedding", "stale_timestamp", "bad_signature", "storage_error",
     "no_stored_embeddings", "similar", "dissimilar"}

HelperEnvs ==
    {[program |-> prog, PAM_USER |-> pu, argument |-> arg, SSH_CLIENT |-> sc,
      SSH_TTY |-> st, DISPLAY |-> dp, WAYLAND_DISPLAY |-> wd, paths_ok |-> po,
      meets |-> m] :
        prog \in {"linuxsup-auth"}, pu \in BOOLEAN, arg \in BOOLEAN, sc \in BOOLEAN,
        st \in BOOLEAN, dp \in BOOLEAN, wd \in BOOLEAN, po \in BOOLEAN,
        m \in HelperResults}
    \cup
    {[program |-> prog, PAM_USER |-> pu, argument |-> FALSE, SSH_CLIENT |-> sc,
      SSH_TTY |-> st, DISPLAY |-> dp, WAYLAND_DISPLAY |-> wd, paths_ok |-> TRUE,
      meets |-> m] :
        prog \in {"pam_module"}, pu \in BOOLEAN, sc \in BOOLEAN,
        st \in BOOLEAN, dp \in BOOLEAN, wd \in BOOLEAN, m \in PamMeets}

\* the PAM module's perform_authentication: the Result, and whether the
\* request was written to the socket
pam_perform_authentication(meets) ==
    CASE meets = "connect_failed" -> [result |-> "Ok(false)", sent |-> FALSE]
      [] meets \in {"io_error", "response_too_large", "decode_error"} ->
            [result |-> "Err", sent |-> TRUE]
      [] meets \in {"empty_embedding", "stale_timestamp", "bad_signature"} ->
            [result |-> "Ok(false)", sent |-> TRUE]
      [] meets = "storage_error" -> [result |-> "Err", sent |-> TRUE]
      [] meets = "no_stored_embeddings" -> [result |-> "Ok(false)", sent |-> TRUE]
      [] meets = "similar" -> [result |-> "Ok(true)", sent |-> TRUE]
      [] meets = "dissimilar" -> [result |-> "Ok(false)", sent |-> TRUE]

HelperInit ==
    /\ h_env \in HelperEnvs
    /\ h_run = None
    /\ MergeParked
    /\ CodecParked
    /\ DetectorParked
    /\ EnvParked
    /\ AuthParked
    /\ ServiceParked
    /\ ConnParked
    /\ DispatchParked

\* linuxsup-auth: main
HelperMain ==
    /\ h_env.program = "linuxsup-auth"
    /\ h_run = None
    /\ LET is_remote == h_env.SSH_CLIENT \/ h_env.SSH_TTY
           has_display == h_env.DISPLAY \/ h_env.WAYLAND_DISPLAY
       IN  h_run' =
             IF ~h_env.PAM_USER /\ ~h_env.argument
             THEN Some([code |-> 1, sent |-> FALSE])
             ELSE IF is_remote \/ ~has_display
             THEN Some([code |-> 1, sent |-> FALSE])
             ELSE IF ~h_env.paths_ok
             THEN Some([code |-> 1, sent |-> FALSE])
             ELSE IF h_env.meets = "Ok(true)"
             THEN Some([code |-> 0, sent |-> TRUE])
             ELSE IF h_env.meets = "Ok(false)"
             THEN Some([code |-> 1, sent |-> TRUE])
             ELSE Some([code |-> 1, sent |-> TRUE])
    /\ UNCHANGED <<h_env, mergeVars, codecVars, detectorVars, envVars, authVars, serviceVars,
                   connVars, dispatchVars>>

\* the PAM module: LinuxSupPam::authenticate
PamAuthenticate ==
    /\ h_env.program = "pam_module"
    /\ h_run = None
    /\ LET call == pam_perform_authentication(h_env.meets)
       IN  h_run' =
             IF ~h_env.PAM_USER
             THEN Some([code |-> "USER_UNKNOWN", sent |-> FALSE])
             ELSE IF h_env.SSH_CLIENT \/ h_env.SSH_TTY
             THEN Some([code |-> "AUTH_ERR", sent |-> FALSE])
             ELSE IF ~h_env.DISPLAY /\ ~h_env.WAYLAND_DISPLAY
             THEN Some([code |-> "AUTH_ERR", sent |-> FALSE])
             ELSE IF call.result = "Ok(true)"
             THEN Some([code |-> "SUCCESS", sent |-> call.sent])
             ELSE IF call.result = "Ok(false)"
             THEN Some([code |-> "AUTH_ERR", sent |-> call.sent])
             ELSE Some([code |-> "SERVICE_ERR", sent |-> call.sent])
    /\ UNCHANGED <<h_env, mergeVars, codecVars, detectorVars, envVars, authVars, serviceVars,
                   connVars, dispatchVars>>

HelperNext == HelperMain \/ PamAuthenticate

SpecHelper == HelperInit /\ [][HelperNext]_vars

(***************************************************************************)
(* SpecDispatch: main's accept loop, `for stream in listener.incoming()`,  *)
(* serving the connections of clients that connect at any moment.  The     *)
(* handlers are the actions above.  They read the clock only as the time   *)
(* elapsed since a start they stamp themselves, so the clock is set back   *)
(* to 0 when a connection has been served.                                 *)
(***************************************************************************)
Clients == {"c1", "c2"}

\* c1 is alice's process, c2 a root process
ClientUid(c) == IF c = "c1" THEN 1000 ELSE 0

\* the requests a client sends on a connection
ClientRequests(c) ==
    IF c = "c1"
    THEN {[kind |-> "Authenticate", username |-> "alice", challenge |-> <<7>>]}
         \cup [kind : {"Enroll"}, username : Usernames, enable_preview : BOOLEAN,
                additional_captures : {None}, replace_weak : {FALSE}]
         \cup [kind : {"Enhance"}, username : {"alice"}, enable_preview : BOOLEAN,
                additional_captures : {Some(1)}, replace_weak : {FALSE}]
    ELSE {[kind |-> "Authenticate", username |-> "bob", challenge |-> <<7>>],
          [kind |-> "Authenticate", username |-> "alice", challenge |-> <<7>>],
          [kind |-> "Enroll", username |-> "bob", enable_preview |-> FALSE,
           additional_captures |-> None, replace_weak |-> FALSE],
          [kind |-> "Enhance", username |-> "alice", enable_preview |-> FALSE,
           additional_captures |-> Some(1), replace_weak |-> FALSE]}

DispatchConfig ==
    [k_required_matches |-> 1, n_total_attempts |-> 1, embedding_buffer_size |-> 0,
     use_embedding_fusion |-> FALSE, lost_face_timeout |-> 1, timeout_seconds |-> 2,
     similarity_threshold |-> SimilarityThreshold,
     min_enrollment_quality |-> default_enrollment_quality,
     num_captures |-> Some(2), capture_interval_ms |-> Some(1)]

DispatchInit ==
    /\ MergeParked
    /\ CodecParked
    /\ HelperParked
    /\ DetectorParked
    /\ AuthParked
    /\ ServiceParked
    /\ ConnParked
    /\ DispatchParked
    /\ config = DispatchConfig
    /\ store = [u \in Usernames |-> IF u = "alice" THEN Some(EnrolledAlice) ELSE None]
    /\ camera = "closed"
    /\ now = 0

\* a client connects: the connection waits in the listener's queue
ClientConnect ==
    \E c \in Clients :
        /\ c \notin {d_backlog[i] : i \in 1..Len(d_backlog)}
        /\ d_current # Some(c)
        /\ c \notin {d_served[i] : i \in 1..Len(d_served)}
        /\ d_backlog' = Append(d_backlog, c)
        /\ d_waited' = IF d_current # None THEN d_waited \cup {c} ELSE d_waited
        /\ UNCHANGED <<d_current, d_served, d_failed, d_hungup, d_stalled, standaloneVars, envVars,
                       authVars, serviceVars, connVars>>

\* the client whose request is being handled closes its end of the socket;
\* once the handler has returned nothing more is written that could meet it
ClientHangup ==
    /\ d_current # None
    /\ Unwrap(d_current) \notin d_hungup
    /\ a_pc \in {"idle", "loop"} \/ s_pc \in {"idle", "loop"}
    /\ d_hungup' = d_hungup \cup {Unwrap(d_current)}
    /\ UNCHANGED <<d_backlog, d_current, d_served, d_waited, d_failed, d_stalled, standaloneVars,
                   envVars, authVars, serviceVars, connVars>>

\* a slip: every connection is handed to its own thread
at_incoming_Spawned == TRUE

\* main is at listener.incoming(): handle_client is not running
at_incoming == d_current = None

\* what a client puts on its connection: a request as send_request frames it,
\* or bytes that are no request (a declared length above 1 MiB, a header cut
\* short, a payload cut short, a variant index that names no Request)
ClientSends(c) ==
    {send_request(request) : request \in ClientRequests(c)}
    \cup (IF c = "c1"
          THEN LET framed == send_request(CHOOSE request \in ClientRequests(c) : TRUE)
               IN  {u32_to_le_bytes(MaxMessageLen + 1) \o <<1, 0, 0, 0>>,
                    <<9, 0>>,
                    SubSeq(framed, 1, Len(framed) - 1),
                    u32_to_le_bytes(4) \o u32_to_le_bytes(3)}
          ELSE {})

\* a slip: a request that cannot be read is answered with an Error response
on_request_error_Answered(w) == write_response(w, ErrorResponse("Authentication failed"))

\* handle_client leaves through `?` before anything is written
on_request_error(w) == w

\* listener.incoming() yields the next connection and handle_client runs up to
\* the match on the request: get_peer_credentials, the length, the payload,
\* bincode::deserialize.  A request that cannot be read ends handle_client
\* with Err, which main logs.
Accept ==
    /\ at_incoming
    /\ d_backlog # <<>>
    /\ LET c == Head(d_backlog)
       IN  /\ d_backlog' = Tail(d_backlog)
           /\ \E bytes \in ClientSends(c) :
                 LET read == read_request(bytes)
                     request == read.value
                 IN  IF ~read.ok
                     THEN /\ wire' = on_request_error(<<>>)
                          /\ d_failed' = d_failed \cup {c}
                          /\ d_served' = Append(d_served, c)
                          /\ UNCHANGED <<d_current, inbox, authVars, serviceVars>>
                     ELSE /\ wire' = <<>>
                          /\ d_current' = Some(c)
                          /\ inbox' = Some([peer |-> ClientUid(c), request |-> request])
                          /\ UNCHANGED <<d_failed, d_served>>
                          /\ IF request.kind = "Authenticate"
                             THEN /\ a_pc' = "idle"
                                  /\ a_state' = NewAuthenticationState(0)
                                  /\ UNCHANGED <<a_request, a_user_data, a_start_time,
                                                 a_total_attempts, a_response, a_last,
                                                 a_hist, serviceVars>>
                             ELSE /\ s_pc' = "idle"
                                  /\ s_local' = NewLocals(0, 0, 0, 0, TRUE)
                                  /\ s_trace' = [invoked |-> FALSE, camera_opened |-> FALSE,
                                                 store0 |-> store, images0 |-> images,
                                                 write_failed |-> None,
                                                 camera_failure |-> "none"]
                                  /\ UNCHANGED <<s_request, s_peer, s_user_data, s_response,
                                                 images, authVars>>
    /\ UNCHANGED <<d_waited, d_hungup, d_stalled, standaloneVars, envVars>>

\* handle_client returns and the loop goes back to listener.incoming()
Return ==
    /\ d_current # None
    /\ a_pc = "done" \/ s_pc = "done"
    /\ d_served' = Append(d_served, Unwrap(d_current))
    /\ d_current' = None
    /\ a_pc' = "off"
    /\ a_request' = None
    /\ a_user_data' = None
    /\ a_state' = None
    /\ a_start_time' = 0
    /\ a_total_attempts' = 0
    /\ a_response' = NoResponse
    /\ a_last' = NoFrame
    /\ a_hist' = <<>>
    /\ s_pc' = "off"
    /\ s_request' = None
    /\ s_peer' = 0
    /\ s_user_data' = None
    /\ s_local' = None
    /\ s_response' = NoResponse
    /\ s_trace' = None
    /\ inbox' = None
    /\ wire' = <<>>
    /\ now' = 0
    /\ d_hungup' = d_hungup \ {Unwrap(d_current)}
    /\ d_stalled' = d_stalled \ {Unwrap(d_current)}
    /\ UNCHANGED <<d_backlog, d_waited, d_failed, images, config, store, camera, standaloneVars>>

DispatchNext ==
    \/ ClientConnect
    \/ Accept
    \/ Return
    \/ AuthNext
    \/ ServiceNext

SpecDispatch == DispatchInit /\ [][DispatchNext]_vars

(***************************************************************************)
(* SpecHangup: the accept loop with clients that may close their end of    *)
(* the socket while their request is being handled.                        *)
(***************************************************************************)
HangupInit ==
    /\ MergeParked
    /\ CodecParked
    /\ HelperParked
    /\ DetectorParked
    /\ AuthParked
    /\ ServiceParked
    /\ ConnParked
    /\ DispatchParked
    /\ config = [DispatchConfig EXCEPT !.num_captures = Some(1)]
    /\ store = [u \in Usernames |-> IF u = "alice" THEN Some(EnrolledAlice) ELSE None]
    /\ camera = "closed"
    /\ now = 0

HangupNext == DispatchNext \/ ClientHangup

SpecHangup == HangupInit /\ [][HangupNext]_vars

(***************************************************************************)
(* SpecStall: the accept loop with clients that may stop reading, and      *)
(* start again, while their enrollment is being streamed to them.          *)
(***************************************************************************)
\* the client reading the stream stops reading: the socket buffer fills and
\* the server's next write_all runs into its 5 s write timeout
\* (a connection is followed through one such stall)
ClientStalls ==
    /\ d_current # None
    /\ Unwrap(d_current) \notin d_stalled
    /\ s_pc = "loop"
    /\ s_request.enable_preview
    /\ \A i \in 1..Len(wire) : ~IsTorn(wire[i])
    /\ d_stalled' = d_stalled \cup {Unwrap(d_current)}
    /\ UNCHANGED <<d_backlog, d_current, d_served, d_waited, d_failed, d_hungup, standaloneVars,
                   envVars, authVars, serviceVars, connVars>>

\* the client reads again and the buffer drains
ClientResumes ==
    /\ d_current # None
    /\ Unwrap(d_current) \in d_stalled
    /\ d_stalled' = d_stalled \ {Unwrap(d_current)}
    /\ UNCHANGED <<d_backlog, d_current, d_served, d_waited, d_failed, d_hungup, standaloneVars,
                   envVars, authVars, serviceVars, connVars>>

StallNext == DispatchNext \/ ClientStalls \/ ClientResumes

SpecStall == HangupInit /\ [][StallNext]_vars

(***************************************************************************)
(* SpecDetector: FaceDetector::parse_detections and parse_detections_debug *)
(* (src/src/core/detector.rs) on one output tensor.  An f32 is an integer  *)
(* number of thousandths.                                                  *)
(***************************************************************************)
MaxPredictions == 7

\* x_center, y_center, width, height, confidence
prediction_length_face == 5

\* the literal stride of parse_detections' transposed branch
stride_8400 == 8400

\* config.detector.input_width and input_height
detector_input_size == 640

Max(a, b) == IF a >= b THEN a ELSE b

\* what the network can put out for one anchor, in pixels: two faces and one
\* anchor with no confidence
Predictions ==
    {<<100000, 100000, 40000, 40000, 900>>,
     <<300000, 200000, 60000, 80000, 500>>,
     <<50000, 50000, 40000, 40000, 0>>}

\* the tensor as try_extract hands it over: the shape, and the elements in
\* row-major order (as_slice)
Standard(preds) ==
    LET n == Len(preds)
        k == prediction_length_face
    IN  [shape |-> <<1, n, k>>,
         data  |-> [j \in 1..(n * k) |-> preds[((j - 1) \div k) + 1][((j - 1) % k) + 1]]]

Transposed(preds) ==
    LET n == Len(preds)
        k == prediction_length_face
    IN  [shape |-> <<1, k, n>>,
         data  |-> [j \in 1..(n * k) |-> preds[((j - 1) % n) + 1][((j - 1) \div n) + 1]]]

OutputOf(output) ==
    IF output.transposed THEN Transposed(output.preds) ELSE Standard(output.preds)

\* `if shape[2] > shape[1] && shape[1] <= 10 { (shape[2], shape[1], true) }
\*  else { (shape[1], shape[2], false) }`, for a shape of three dimensions
layout_of(shape) ==
    IF shape[3] > shape[2] /\ shape[2] <= 10
    THEN [num_predictions |-> shape[3], prediction_length |-> shape[2], is_transposed |-> TRUE]
    ELSE [num_predictions |-> shape[2], prediction_length |-> shape[3], is_transposed |-> FALSE]

\* the offsets into output_array read for prediction i (from 0)
offsets(layout, i, stride) ==
    LET base_idx == IF layout.is_transposed THEN i ELSE i * layout.prediction_length
        step == IF layout.is_transposed THEN stride ELSE 1
    IN  <<base_idx, base_idx + step, base_idx + 2 * step, base_idx + 3 * step>>
        \o (IF layout.prediction_length > 4 THEN <<base_idx + 4 * step>> ELSE <<>>)

\* an index past the end of the slice panics
out_of_bounds(output, layout, stride) ==
    \E i \in 0..(layout.num_predictions - 1) :
        \E c \in 1..Len(offsets(layout, i, stride)) :
            offsets(layout, i, stride)[c] >= Len(output.data)

\* the five raw values of prediction i, scaled and turned into corners
face_box(output, layout, i, stride) ==
    LET at == offsets(layout, i, stride)
        x_center_raw == output.data[at[1] + 1]
        y_center_raw == output.data[at[2] + 1]
        width_raw == output.data[at[3] + 1]
        height_raw == output.data[at[4] + 1]
        confidence == IF layout.prediction_length > 4 THEN output.data[at[5] + 1] ELSE 0
        scale_factor == IF \/ x_center_raw > 1000 \/ y_center_raw > 1000
                           \/ width_raw > 1000 \/ height_raw > 1000
                        THEN 1 ELSE detector_input_size
        x_center == x_center_raw * scale_factor
        y_center == y_center_raw * scale_factor
        width == width_raw * scale_factor
        height == height_raw * scale_factor
    IN  [x1 |-> Max(x_center - (width \div 2), 0),
         y1 |-> Max(y_center - (height \div 2), 0),
         x2 |-> Min(x_center + (width \div 2), detector_input_size * 1000),
         y2 |-> Min(y_center + (height \div 2), detector_input_size * 1000),
         confidence |-> confidence]

\* `confidence > 0.001`, and the box neither inverted nor under 10 pixels
is_candidate(box) ==
    /\ box.confidence > 1
    /\ box.x2 > box.x1
    /\ box.y2 > box.y1
    /\ box.x2 - box.x1 > 10000
    /\ box.y2 - box.y1 > 10000

Panicked == [panicked |-> TRUE, faces |-> <<>>]
Parsed(faces) == [panicked |-> FALSE, faces |-> faces]

\* parse_detections up to apply_nms: the candidate boxes.  The transposed
\* branch reads component c of prediction i at c * 8400 + i.
parse_detections(output) ==
    LET layout == layout_of(output.shape)
    IN  IF out_of_bounds(output, layout, stride_8400) THEN Panicked
        ELSE Parsed(SelectSeq(
                 [j \in 1..layout.num_predictions |->
                     face_box(output, layout, j - 1, stride_8400)],
                 is_candidate))

\* parse_detections_debug up to apply_nms: all_faces.  The transposed branch
\* reads component c of prediction i at c * num_predictions + i.
parse_detections_debug(output) ==
    LET layout == layout_of(output.shape)
        stride == layout.num_predictions
    IN  IF out_of_bounds(output, layout, stride) THEN Panicked
        ELSE Parsed([j \in 1..layout.num_predictions |->
                        face_box(output, layout, j - 1, stride)])

DetectorInit ==
    /\ y_output \in {[preds |-> preds, transposed |-> t] :
                        preds \in UNION {[1..n -> Predictions] : n \in 1..MaxPredictions},
                        t \in BOOLEAN}
    /\ y_faces = None
    /\ MergeParked
    /\ CodecParked
    /\ HelperParked
    /\ EnvParked
    /\ AuthParked
    /\ ServiceParked
    /\ ConnParked
    /\ DispatchParked

ParseDetections ==
    /\ y_faces = None
    /\ y_faces' = Some([fn |-> "parse_detections", out |-> parse_detections(OutputOf(y_output))])
    /\ UNCHANGED <<y_output, mergeVars, codecVars, helperVars, envVars, authVars, serviceVars,
                   connVars, dispatchVars>>

ParseDetectionsDebug ==
    /\ y_faces = None
    /\ y_faces' = Some([fn |-> "parse_detections_debug",
                        out |-> parse_detections_debug(OutputOf(y_output))])
    /\ UNCHANGED <<y_output, mergeVars, codecVars, helperVars, envVars, authVars, serviceVars,
                   connVars, dispatchVars>>

DetectorNext == ParseDetections \/ ParseDetectionsDebug

SpecDetector == DetectorInit /\ [][DetectorNext]_vars

(***************************************************************************)
(* Claims about merge_user_data (checked under SpecMerge).                 *)
(***************************************************************************)
RECURSIVE InsertDesc(_, _)
InsertDesc(sorted, x) ==
    IF sorted = <<>> THEN <<x>>
    ELSE IF x > Head(sorted) THEN <<x>> \o sorted
    ELSE <<Head(sorted)>> \o InsertDesc(Tail(sorted), x)

RECURSIVE SortDesc(_)
SortDesc(s) == IF s = <<>> THEN <<>> ELSE InsertDesc(SortDesc(Tail(s)), Head(s))

\* the multiset of a sequence of qualities, as its descending sort
QualityMultiset(s) == SortDesc(s)

MergeReturnedWithQualities ==
    /\ m_pc = "ret"
    /\ m_replace_weak
    /\ IsSome(m_existing.embedding_qualities)

\* C9: after merge with replace_weak=true on a record with qualities,
\* embeddings_after is in [embeddings_before, embeddings_before + |new|] and the
\* qualities retained are the embeddings_after highest of existing plus new.
C9_RetainedAreTopQualities ==
    MergeReturnedWithQualities =>
        LET before == Len(m_existing.embeddings)
            after == Len(m_out.data.embeddings)
            combined == SortDesc(Unwrap(m_existing.embedding_qualities) \o m_new_qualities)
        IN  /\ before <= after
            /\ after <= before + Len(m_new_embeddings)
            /\ QualityMultiset(Unwrap(m_out.data.embedding_qualities)) = SubSeq(combined, 1, after)

\* The merge the claim C10 describes: each new sample, in order, is compared
\* with the weakest slot of the record as it stands at that moment.
WeakestSlot(qualities) ==
    CHOOSE i \in 1..Len(qualities) : \A k \in 1..Len(qualities) : qualities[i] <= qualities[k]

RECURSIVE MergeAsDescribed(_, _, _, _)
MergeAsDescribed(qualities, new_qualities, j, replaced) ==
    IF j > Len(new_qualities) THEN [qualities |-> qualities, replaced |-> replaced]
    ELSE IF qualities # <<>> /\ new_qualities[j] > qualities[WeakestSlot(qualities)]
         THEN MergeAsDescribed([qualities EXCEPT ![WeakestSlot(qualities)] = new_qualities[j]],
                               new_qualities, j + 1, replaced + 1)
         ELSE MergeAsDescribed(Append(qualities, new_qualities[j]), new_qualities, j + 1, replaced)

\* C10: merge with replace_weak=true compares each new sample with the weakest
\* slot of the record as it currently stands, never overwrites a slot written
\* earlier in the same merge with a weaker sample, and counts distinct slots;
\* existing [0.5, 0.9, 0.6] with incoming [0.7, 0.55] gives replaced_count=1,
\* added=1 and final qualities {0.9, 0.7, 0.6, 0.55}.
C10_ReplacesCurrentWeakest ==
    MergeReturnedWithQualities =>
        LET ref == MergeAsDescribed(Unwrap(m_existing.embedding_qualities), m_new_qualities, 1, 0)
        IN  /\ QualityMultiset(Unwrap(m_out.data.embedding_qualities)) = QualityMultiset(ref.qualities)
            /\ m_out.replaced = ref.replaced
            /\ m_out.added = Len(ref.qualities) - Len(m_existing.embeddings)
            /\ (/\ Unwrap(m_existing.embedding_qualities) = <<50, 90, 60>>
                /\ m_new_qualities = <<70, 55>>)
               => (/\ m_out.replaced = 1
                   /\ m_out.added = 1
                   /\ QualityMultiset(Unwrap(m_out.data.embedding_qualities)) = <<90, 70, 60, 55>>)

RecordShape(record) ==
    /\ Len(record.embeddings) >= 1
    /\ IsSome(record.embedding_qualities) =>
          Len(Unwrap(record.embedding_qualities)) = Len(record.embeddings)

\* C12: every record saved by enroll or by enhance/merge has the record shape
\* (at least one embedding; qualities, if present, as many as embeddings),
\* also after a merge, with either replace_weak value, into a record whose
\* qualities field is absent.
C12_RecordShape ==
    (m_pc = "ret" /\ RecordShape(m_existing)) => RecordShape(m_out.data)

(***************************************************************************)
(* Claims about perform_authentication (checked under SpecAuth).           *)
(***************************************************************************)
RECURSIVE CountTrue(_)
CountTrue(s) == IF s = <<>> THEN 0 ELSE (IF Head(s) THEN 1 ELSE 0) + CountTrue(Tail(s))

\* the last n entries of s
LastN(s, n) == IF Len(s) <= n THEN s ELSE SubSeq(s, Len(s) - n + 1, Len(s))

AuthSucceeded == a_response.type = "Auth" /\ a_response.success
DefaultKofN ==
    /\ config.k_required_matches = 2
    /\ config.n_total_attempts = 3

\* C2: authenticate returns success at a step exactly when, after that step's
\* window update, at least K of the last N frames compared since the most recent
\* reset were hits, and it returns at the first such step.  With K=2, N=3:
\* hit, miss, hit succeeds at step 3; hit, miss, miss, hit leaves the window
\* {miss, miss, hit} with successful_matches=1 and no success; one more hit succeeds.
C2_KofNDecision ==
    /\ a_last.outcome = "face" =>
          (AuthSucceeded <=>
              CountTrue(LastN(a_hist, config.n_total_attempts)) >= config.k_required_matches)
    /\ AuthSucceeded => a_pc = "done" /\ a_last.outcome = "face"
    /\ DefaultKofN =>
          /\ a_hist = <<TRUE, FALSE, TRUE>> => AuthSucceeded
          /\ a_hist = <<TRUE, FALSE, FALSE, TRUE>> =>
                /\ ~AuthSucceeded
                /\ a_state.auth_attempts = <<FALSE, FALSE, TRUE>>
                /\ a_state.successful_matches = 1
          /\ a_hist = <<TRUE, FALSE, FALSE, TRUE, TRUE>> => AuthSucceeded

\* the second scenario of C2 ran to its end: hit, miss, miss, hit, hit
C2_Witness ==
    /\ DefaultKofN
    /\ a_hist = <<TRUE, FALSE, FALSE, TRUE, TRUE>>
    /\ AuthSucceeded
    /\ a_response.attempts = 5

\* C3: after every loop iteration of authenticate (no face, capture failure,
\* embedding failure and reset included) successful_matches is the number of
\* true entries of the sliding window and the window holds at most N entries,
\* for every N >= 0.
C3_WindowAccounting ==
    /\ a_state.successful_matches = CountTrue(a_state.auth_attempts)
    /\ Len(a_state.auth_attempts) <= config.n_total_attempts

\* a hit has been popped off a full window, then an iteration failed to embed
C3_Witness ==
    /\ a_pc = "loop"
    /\ config.n_total_attempts >= 1
    /\ Len(a_hist) > config.n_total_attempts
    /\ a_hist[1]
    /\ Len(a_state.auth_attempts) = config.n_total_attempts
    /\ a_last.outcome = "embedding_failed"

F32LittleEndian(x) ==
    CASE x = 0 -> <<0, 0, 0, 0>>
      [] x = 1 -> <<0, 0, 128, 63>>
      [] x = 2 -> <<0, 0, 0, 64>>
      [] x = 3 -> <<0, 0, 64, 64>>

RECURSIVE ExpectedBytes(_)
ExpectedBytes(v) == IF v = <<>> THEN <<>> ELSE F32LittleEndian(Head(v)) \o ExpectedBytes(Tail(v))

\* C5: a terminal Auth response with success=true carries SHA-256 over the
\* little-endian f32 bytes of the embedding of the frame that completed the
\* K-th hit followed by the challenge; with success=false (timeout, user not
\* enrolled) the signature is empty.  The signature is non-empty iff success.
C5_SignatureBinding ==
    a_response.type = "Auth" =>
        /\ a_response.success =>
              /\ a_last.outcome = "face"
              /\ config.k_required_matches >= 1 => a_last.hit
              /\ a_response.signature =
                    Sha256(ExpectedBytes(Unwrap(a_last.embedding).v) \o a_request.challenge)
        /\ ~a_response.success => a_response.signature = EmptyBytes
        /\ a_response.signature.len > 0 <=> a_response.success

\* success on a frame that hit through the fused probe: the signature is over
\* that frame's own embedding
C5_Witness ==
    /\ AuthSucceeded
    /\ config.k_required_matches >= 1
    /\ a_last.hit
    /\ a_last.embedding = Some(Emb(<<0, 1>>))
    /\ a_request.challenge = <<9, 9>>
    /\ a_response.signature.len = 32

\* C17: an Authenticate request naming a user without a stored record is
\* answered Auth{success = false, "not enrolled", attempts = 0, empty signature},
\* never Error, whatever the camera does
NotEnrolledResponse == AuthResponse(FALSE, "not enrolled", 0, EmptyBytes)

C17_NotEnrolledWhateverCamera ==
    (a_pc = "done" /\ ~IsSome(store[a_request.username])) =>
        a_response = NotEnrolledResponse

\* C18 as stated: the loop has a budget of timeout_seconds: the timeout response
\* is success = false with an empty signature and attempts equal to the
\* iterations performed (each takes one tick), and success = true is never
\* returned at a moment when the budget has already elapsed
BudgetElapsed == now - a_start_time >= config.timeout_seconds

C18_TimeoutBudget ==
    (a_pc = "done" /\ a_response.type = "Auth" /\ IsSome(store[a_request.username])) =>
        /\ (~a_response.success) =>
              /\ BudgetElapsed
              /\ a_response.signature = EmptyBytes
              /\ a_response.attempts = now - a_start_time
        /\ a_response.success => ~BudgetElapsed

\* C18 as the loop implements it: the budget is tested when an iteration begins,
\* so the timeout response is as above and success = true comes only from an
\* iteration that began before the budget had elapsed (it may be returned after)
C18_BudgetTestedPerIteration ==
    (a_pc = "done" /\ a_response.type = "Auth" /\ IsSome(store[a_request.username])) =>
        /\ (~a_response.success) =>
              /\ BudgetElapsed
              /\ a_response.signature = EmptyBytes
              /\ a_response.attempts = now - a_start_time
        /\ a_response.success =>
              /\ a_last.started - a_start_time < config.timeout_seconds
              /\ a_response.attempts = now - a_start_time

\* success returned by the last iteration the budget allowed, after it elapsed
C18_Witness ==
    /\ AuthSucceeded
    /\ BudgetElapsed
    /\ a_response.attempts = config.timeout_seconds

(***************************************************************************)
(* Claims about the enroll and enhance handlers (checked under             *)
(* SpecService).                                                           *)
(***************************************************************************)
RequestHandled == s_pc \in {"loop", "done"}
RequestDone == s_pc = "done"

\* the peer's uid resolves, and to the name the request is about
PeerIsNamedUser ==
    /\ IsSome(get_username_from_uid(s_peer))
    /\ Unwrap(get_username_from_uid(s_peer)) = s_request.username

EngineTouchedNothing ==
    /\ ~s_trace.camera_opened
    /\ camera = "closed"
    /\ s_local.captured = 0
    /\ store = s_trace.store0
    /\ images = s_trace.images0

\* C1: for every Enroll or Enhance request, with or without preview, from a
\* peer with uid u # 0 the engine is invoked (store opened, camera opened,
\* captures taken) iff the lookup of u succeeds and gives request.username;
\* a peer with uid 0 is never turned away by the check.
C1_PeerAuthorization ==
    RequestHandled =>
        /\ s_peer # 0 => (s_trace.invoked <=> PeerIsNamedUser)
        /\ s_peer = 0 => s_trace.invoked
        /\ ~s_trace.invoked => EngineTouchedNothing

\* bob (uid 1001) enrolled himself: the engine ran to a saved record
C1_Witness ==
    /\ RequestDone
    /\ s_peer = 1001
    /\ s_request.kind = "Enroll"
    /\ s_request.username = "bob"
    /\ s_trace.invoked
    /\ s_trace.camera_opened
    /\ s_local.captured >= 1
    /\ s_response.success

RejectedByAuthorization ==
    /\ RequestDone
    /\ s_peer # 0
    /\ ~PeerIsNamedUser

PermissionDeniedMessages == {EnrollDenied, EnhanceDenied}

C7_EnrollNeedsAllCaptures ==
    (RequestDone /\ s_request.kind = "Enroll") =>
        /\ s_response.success => s_local.captured = s_local.total
        /\ s_local.captured < s_local.total => store = s_trace.store0

\* C8: whenever an Enhance request (streaming or not, replace_weak or not)
\* returns success=true the merged record has been saved: the record loaded
\* from the store has exactly embeddings_after embeddings and holds every
\* replacement and every appended sample of the merge.
C8_EnhanceSuccessIsSaved ==
    (RequestDone /\ s_request.kind = "Enhance" /\ s_response.success) =>
        LET loaded == get_user(s_request.username)
        IN  /\ loaded.ok
            /\ Len(loaded.value.embeddings) = s_response.embeddings_after
            /\ loaded.value.embeddings = Unwrap(s_user_data).embeddings

\* the sum of the i-th components of a sequence of embeddings
RECURSIVE ComponentTotal(_, _)
ComponentTotal(embeddings, i) ==
    IF embeddings = <<>> THEN 0
    ELSE Head(embeddings).v[i] + ComponentTotal(Tail(embeddings), i)

\* avg (a vector v over a denominator d) is the componentwise mean of embeddings
IsMeanOf(avg, embeddings) ==
    /\ embeddings # <<>>
    /\ Len(avg.v) = Len(embeddings[1].v)
    /\ \A i \in 1..Len(avg.v) :
          avg.v[i] * Len(embeddings) = ComponentTotal(embeddings, i) * avg.d

\* the records this request wrote
WrittenRecords ==
    {Unwrap(store[u]) : u \in {w \in Usernames : IsSome(store[w]) /\ store[w] # s_trace.store0[w]}}

\* C13: after every mutation of a record by the service (a fresh enroll, or a
\* merge with either replace_weak value) the averaged embedding is present and
\* each component is the arithmetic mean of that component over the record's
\* current embeddings.
C13_AveragedIsMean ==
    RequestDone =>
        \A record \in WrittenRecords :
            /\ IsSome(record.averaged_embedding)
            /\ IsMeanOf(Unwrap(record.averaged_embedding), record.embeddings)

\* C14: for every Enhance request success=true requires at least one valid
\* capture; with zero captures before the deadline the response has
\* success=false, embeddings_after = embeddings_before, replaced_count = 0 and
\* nothing is written to the user's record.
C14_EnhanceNeedsACapture ==
    (RequestDone /\ s_request.kind = "Enhance") =>
        /\ s_response.success => s_local.captured >= 1
        /\ s_local.captured = 0 =>
              /\ s_response.success = FALSE
              /\ s_response.embeddings_after = s_response.embeddings_before
              /\ s_response.replaced_count = 0
              /\ store = s_trace.store0

\* a preview-enabled enhancement of alice ran to its deadline without a capture
C14_Witness ==
    /\ RequestDone
    /\ s_request.kind = "Enhance"
    /\ s_request.enable_preview
    /\ s_trace.camera_opened
    /\ s_local.total >= 1
    /\ s_local.captured = 0
    /\ now - s_local.start >= s_local.total * 5
    /\ s_response.success = FALSE
    /\ s_response.embeddings_before = 2

(***************************************************************************)
(* Claims about the frames on a connection (checked under SpecDispatch).   *)
(***************************************************************************)
HandlingDone == a_pc = "done" \/ s_pc = "done"
Handled == IF a_pc = "done" THEN [request |-> [kind |-> "Authenticate",
                                                enable_preview |-> FALSE],
                                   response |-> a_response]
           ELSE [request |-> s_request, response |-> s_response]

IsTerminal(frame) == frame.msg.type \in {"Auth", "Enroll", "Enhance", "Error"}
IsComplete(frame) == frame.msg.type = "Complete"

\* C15: the frames written on a connection are zero or more preview and status
\* frames, then Complete when the request asked for the preview, then exactly
\* one terminal frame and nothing after it; Complete is never followed by a
\* preview or status frame, on the early exits too; Authenticate and requests
\* without preview get the terminal frame only.
C15_FrameOrder ==
    /\ \A i \in 1..Len(wire) :
          /\ IsTerminal(wire[i]) => i = Len(wire)
          /\ IsComplete(wire[i]) =>
                /\ i < Len(wire) => (i + 1 = Len(wire) /\ IsTerminal(wire[i + 1]))
                /\ \A j \in 1..(i - 1) : IsPreviewOrStatus(wire[j])
          /\ IsTerminal(wire[i]) \/ IsComplete(wire[i]) \/ IsPreviewOrStatus(wire[i])
    /\ ~HandlingDone => \A i \in 1..Len(wire) : IsPreviewOrStatus(wire[i])
    /\ HandlingDone =>
          /\ Len(wire) >= 1
          /\ IsTerminal(wire[Len(wire)])
          /\ wire[Len(wire)].msg = Handled.response
          /\ IF Handled.request.enable_preview
             THEN Len(wire) >= 2 /\ IsComplete(wire[Len(wire) - 1])
             ELSE Len(wire) = 1

\* a preview-enabled enrollment ran to success: frames, Complete, the response
C15_Witness ==
    /\ s_pc = "done"
    /\ s_request.kind = "Enroll"
    /\ s_request.enable_preview
    /\ s_response.success
    /\ Len(wire) = 3
    /\ wire[1].msg = PreviewFrame("report", 2, 2)
    /\ IsComplete(wire[2])
    /\ wire[3].msg = s_response

\* C16: the service's writer and the client's reader agree on the framing.
\* Authenticate: one frame without a kind byte, read as one untagged frame.
\* Enroll and Enhance: every frame starts with its kind byte, 0x00 for the
\* terminal response and 0x01 for a stream message, with or without preview,
\* and is read as a tagged frame.  The response the client returns is the
\* terminal response the service produced, and no byte is left unread.
C16_FramingAgrees ==
    HandlingDone =>
        LET kind == Handled.request.kind
            read == client_reads(kind, WireBytes(wire))
        IN  /\ read.ok
            /\ read.value = Handled.response
            /\ read.rest = <<>>
            /\ \A i \in 1..Len(wire) :
                  LET first == FrameBytes(wire[i])[1]
                      payload_len == Len(serialize(wire[i].msg))
                  IN  IF kind = "Authenticate"
                      THEN /\ Len(wire) = 1
                           /\ Len(FrameBytes(wire[i])) = 4 + payload_len
                           /\ first = payload_len % 256
                      ELSE /\ Len(FrameBytes(wire[i])) = 5 + payload_len
                           /\ first = IF IsTerminal(wire[i]) THEN 0 ELSE 1

\* an enhancement without preview succeeded: the one tagged terminal frame is
\* read back by the client's tagged reader
C16_Witness ==
    /\ s_pc = "done"
    /\ s_request.kind = "Enhance"
    /\ ~s_request.enable_preview
    /\ s_response.success
    /\ Len(wire) = 1
    /\ FrameBytes(wire[1])[1] = 0
    /\ read_enrollment_with_preview(WireBytes(wire)).value = s_response

\* the engine calls in progress: a handler that is inside its capture loop
EngineCalls == {h \in {"authenticate", "enroll", "enhance"} :
                  \/ h = "authenticate" /\ a_pc = "loop"
                  \/ h = "enroll" /\ s_pc = "loop" /\ s_request.kind = "Enroll"
                  \/ h = "enhance" /\ s_pc = "loop" /\ s_request.kind = "Enhance"}

CameraHeldByOneCall ==
    /\ camera = "open" => d_current # None /\ Cardinality(EngineCalls) = 1
    /\ camera # "open" => EngineCalls = {}

\* C19: at every moment at most one engine call holds the camera.  The camera
\* is open only inside the handling of the one connection being served, by
\* exactly one of authenticate, enroll and enhance, and it is closed whenever
\* the service accepts a connection, reads a request or finishes with a
\* connection, whatever the exit path and however many clients are waiting.
C19_OneCameraHolder ==
    /\ []CameraHeldByOneCall
    /\ [][(d_current' # d_current \/ (IsSome(inbox') /\ inbox' # inbox))
            => camera = "closed" /\ camera' = "closed"]_vars

C19_Witness ==
    /\ camera = "open"
    /\ d_current = Some("c2")
    /\ d_served = <<>>
    /\ d_backlog = <<"c1">>
    /\ EngineCalls = {"enroll"}

\* the connections in the order the service takes them up
ProcessingOrder ==
    d_served \o (IF d_current = None THEN <<>> ELSE <<Unwrap(d_current)>>) \o d_backlog

\* C20: connections are processed strictly one at a time in accept order.  A
\* client that connects joins the end of the processing order and nothing else
\* changes that order; a request is read only while no connection is being
\* handled; the service finishes with a connection only when its handler has
\* returned and the terminal frame is the last frame written; frames, user
\* records and enrollment images are written only for the one connection
\* being served.
C20_OneAtATime ==
    [][/\ \/ ProcessingOrder' = ProcessingOrder
          \/ \E c \in Clients : ProcessingOrder' = Append(ProcessingOrder, c)
       /\ (IsSome(inbox') /\ inbox' # inbox)
            => d_current = None /\ a_pc = "off" /\ s_pc = "off" /\ d_backlog # <<>>
                 /\ d_current' = Some(Head(d_backlog))
       /\ (d_current # None /\ d_current' # d_current)
            => /\ d_current' = None
               /\ HandlingDone
               /\ wire # <<>>
               /\ IsTerminal(wire[Len(wire)])
               /\ wire[Len(wire)].msg = Handled.response
       /\ ((wire' # wire /\ wire' # <<>>) \/ store' # store \/ images' # images)
            => d_current # None /\ d_current' = d_current]_vars

C20_Witness ==
    /\ d_served = <<"c1">>
    /\ d_current = Some("c2")
    /\ "c2" \in d_waited
    /\ s_pc = "done"
    /\ s_response.success
    /\ IsSome(store["bob"])
    /\ Len(wire) = 1

\* C21: a request that cannot be read (declared length above 1 MiB, frame cut
\* short, payload that is no Request) ends that connection only.  On the step
\* that meets it no byte is written, no handler starts, the camera stays
\* closed, no record and no image changes, and main is back at
\* listener.incoming(); whenever main is there and a connection waits, the
\* accept step can be taken.
C21_ProtocolErrorIsLocal ==
    /\ []((d_current = None /\ d_backlog # <<>>) => ENABLED Accept)
    /\ [][d_failed' # d_failed
            => /\ wire' = <<>>
               /\ inbox' = None
               /\ a_pc' = "off" /\ s_pc' = "off"
               /\ camera = "closed" /\ camera' = "closed"
               /\ store' = store /\ images' = images
               /\ d_current' = None]_vars

C21_Witness ==
    /\ d_failed = {"c1"}
    /\ d_served = <<"c1">>
    /\ d_current = Some("c2")
    /\ s_pc = "done"
    /\ s_response.success
    /\ IsTerminal(wire[Len(wire)])

\* C22: save_user_data replaces a record atomically.  After an enroll or
\* enhance request, the save interrupted part-way included, a load of any
\* username finds the record the request found or a complete record, never a
\* file that fails to decode.
C22_SaveIsAtomic ==
    s_pc = "done" =>
        \A u \in Usernames : store[u] = s_trace.store0[u] \/ IsSome(store[u])

\* C23: when the client has closed the socket during a streaming Enroll or
\* Enhance, the request is abandoned at the first write that fails: from then
\* on no capture is taken and the user's record is not written.
C23_AbandonedAtFailedWrite ==
    (s_pc \in {"loop", "done"} /\ IsSome(s_trace.write_failed)) =>
        /\ s_local.captured = Unwrap(s_trace.write_failed)
        /\ store = s_trace.store0

\* C24: a camera that cannot be opened, or whose session cannot be started,
\* is reported by request type.  Authenticate answers with the terminal
\* Error(string).  Enroll and Enhance answer with their own response type,
\* success=false and the message that names the failure, and the terminal frame
\* is written.
C24_CameraFailureByRequestType ==
    /\ (a_pc = "done" /\ a_last.outcome \in {"camera_failed", "session_failed"}) =>
            /\ a_response.type = "Error"
            /\ wire = <<[tag |-> None, msg |-> a_response]>>
    /\ (s_pc = "done" /\ s_trace.camera_failure # "none") =>
            /\ s_response.type = s_request.kind
            /\ ~s_response.success
            /\ s_response.message = (IF s_trace.camera_failure = "new"
                                     THEN "Failed to initialize camera"
                                     ELSE "Failed to start camera")
            /\ wire # <<>>
            /\ IsTerminal(wire[Len(wire)])
            /\ wire[Len(wire)].msg = s_response

C24_Witness ==
    /\ s_pc = "done"
    /\ s_request.kind = "Enhance"
    /\ s_request.enable_preview
    /\ s_trace.camera_failure = "start_session"
    /\ s_response.type = "Enhance"
    /\ Len(wire) = 2

\* C25: a record that fails to decode is told apart from a missing one.  An
\* Authenticate or Enhance request for a user whose record is corrupted is not
\* answered as if the user had no record: not with "not enrolled", not with
\* "not found".
C25_CorruptIsNotMissing ==
    /\ (a_pc = "done" /\ get_user(a_request.username).err = "Storage: Failed to deserialize")
            => ~(a_response.type = "Auth" /\ a_response.message = "not enrolled")
    /\ (s_pc = "done" /\ s_request.kind = "Enhance"
           /\ s_trace.store0[s_request.username] = Corrupt)
            => s_response.message # "User not found. Please enroll first."

C27_DistinctCodes ==
    IsSome(h_run) =>
        LET e == h_env
            r == Unwrap(h_run)
            bin == e.program = "linuxsup-auth"
            has_user == e.PAM_USER \/ (bin /\ e.argument)
            refused == has_user /\ (e.SSH_CLIENT \/ e.SSH_TTY
                                      \/ (~e.DISPLAY /\ ~e.WAYLAND_DISPLAY))
            ran == has_user /\ ~refused /\ e.paths_ok
            succeeded == ran /\ e.meets \in {"Ok(true)", "similar"}
            no_match == ran /\ e.meets \in {"Ok(false)", "dissimilar"}
            infrastructure ==
                ran /\ e.meets \in {"Err", "connect_failed", "io_error", "decode_error"}
        IN  /\ succeeded => r.code = IF bin THEN 0 ELSE "SUCCESS"
            /\ no_match => r.code = IF bin THEN 1 ELSE "AUTH_ERR"
            /\ infrastructure => r.code = IF bin THEN 2 ELSE "SERVICE_ERR"
            /\ refused => /\ ~r.sent
                          /\ r.code \notin (IF bin THEN {0, 1, 2}
                                             ELSE {"SUCCESS", "AUTH_ERR", "SERVICE_ERR"})

\* C28: under every configuration Config::validate accepts, an authenticate
\* call answers success=true only if some frame it compared had a best
\* similarity strictly above similarity_threshold; k_required_matches = 0 is
\* such a configuration.
C28_SuccessNeedsAHit ==
    (a_pc = "done" /\ AuthSucceeded) => a_last.hit_seen

\* a step of a capture loop that stores a sample
CaptureTaken == s_pc = "loop" /\ s_local'.captured = s_local.captured + 1

\* C29 (as claimed): in every enroll and enhance loop a frame is captured only
\* if the time since last_capture_time (the previous capture, at first the
\* loop start) is at least the capture interval and its quality is at least
\* the minimum.
C29_CaptureGate ==
    [][CaptureTaken =>
          /\ s_local'.last_capture_time - s_local.last_capture_time
                >= UnwrapOr(config.capture_interval_ms, 2000)
          /\ s_local'.quality_scores[Len(s_local'.quality_scores)]
                >= config.min_enrollment_quality]_vars

\* C29 (amended): a frame is captured only if its quality is at least the
\* minimum and the capture interval has passed since last_capture_time, except
\* that a loop without preview takes its first capture at any time; every
\* stored quality is at least the minimum and two captures of a loop are at
\* least the interval apart.
C29_CaptureGateAfterFirst ==
    /\ [](s_pc \in {"loop", "done"} =>
            \A i \in DOMAIN s_local.quality_scores :
                s_local.quality_scores[i] >= config.min_enrollment_quality)
    /\ [][CaptureTaken =>
            /\ s_local'.quality_scores[Len(s_local'.quality_scores)]
                  >= config.min_enrollment_quality
            /\ \/ s_local'.last_capture_time - s_local.last_capture_time
                     >= UnwrapOr(config.capture_interval_ms, 2000)
               \/ ~s_request.enable_preview /\ s_local.captured = 0]_vars

C29_Witness ==
    /\ s_pc = "loop"
    /\ ~s_request.enable_preview
    /\ s_local.captured = 2
    /\ s_local.quality_scores = <<75, 95>>
    /\ s_local.last_capture_time = s_local.start + 1

\* the capture loop has met one of its two exits
LoopExit ==
    \/ s_local.captured = s_local.total
    \/ now - s_local.start >=
          s_local.total * UnwrapOr(config.capture_interval_ms, 2000)
              * (IF s_request.enable_preview THEN 5 ELSE 3)

\* C30: every enroll and enhance capture loop ends: once captured == T or the
\* elapsed time has reached T * I * 5 (with preview) or T * I * 3 (without)
\* no further turn is taken and the code after the loop runs, captured never
\* exceeds T, and the request ends with its terminal response on the socket,
\* also when no frame was ever captured.
C30_LoopTerminates ==
    /\ [](s_pc \in {"loop", "done"} => s_local.captured <= s_local.total)
    /\ [][(s_pc = "loop" /\ LoopExit) => s_pc' = "done"]_vars
    /\ [](s_pc = "done" =>
            /\ s_response.type \in {"Enroll", "Enhance", "Error"}
            /\ wire # <<>>
            /\ wire[Len(wire)] = [tag |-> Some(MSG_TYPE_RESPONSE), msg |-> s_response])
    /\ (s_pc = "loop" ~> s_pc = "done")

C30_Witness ==
    /\ s_pc = "done"
    /\ s_trace.camera_opened
    /\ s_local.total = 2
    /\ s_local.captured = 0
    /\ now - s_local.start >= 6
    /\ ~s_response.success
    /\ IsTerminal(wire[Len(wire)])

\* a turn of the authenticate loop that met a failure: the frame grab, the
\* detection or the embedding extraction returned Err
FailedTurn ==
    /\ a_pc = "loop"
    /\ a_total_attempts' # a_total_attempts
    /\ a_last'.outcome \in {"capture_failed", "detect_error", "embedding_failed"}

\* C31 (as claimed): a turn of the authenticate loop whose frame grab,
\* detection or embedding extraction fails does not end the call, counts as
\* an attempt, and leaves the sliding window, the hit counter and the fusion
\* buffer as they were before the turn.
C31_FailedTurnChangesNothing ==
    [][FailedTurn =>
          /\ a_pc' = "loop"
          /\ a_response' = a_response
          /\ a_total_attempts' = a_total_attempts + 1
          /\ a_state'.auth_attempts = a_state.auth_attempts
          /\ a_state'.successful_matches = a_state.successful_matches
          /\ a_state'.embedding_buffer = a_state.embedding_buffer]_vars

\* C31 (amended): such a turn does not end the call and counts as an attempt;
\* the sliding window, the hit counter and the fusion buffer are as they were
\* before the turn, unless the face had been lost for longer than
\* lost_face_timeout when the turn began, in which case they are empty and 0;
\* a call that has entered its loop ends in success or in the timeout answer.
C31_FailedTurnOnlyResets ==
    /\ [][FailedTurn =>
            /\ a_pc' = "loop"
            /\ a_response' = a_response
            /\ a_total_attempts' = a_total_attempts + 1
            /\ IF FaceLost(a_state, now)
               THEN /\ a_state'.auth_attempts = <<>>
                    /\ a_state'.successful_matches = 0
                    /\ a_state'.embedding_buffer = <<>>
               ELSE /\ a_state'.auth_attempts = a_state.auth_attempts
                    /\ a_state'.successful_matches = a_state.successful_matches
                    /\ a_state'.embedding_buffer = a_state.embedding_buffer]_vars
    /\ []((a_pc = "done" /\ a_total_attempts > 0) =>
            /\ a_response.type = "Auth"
            /\ a_response.success \/ a_response.message = "timeout")

C31_Witness ==
    /\ a_pc = "loop"
    /\ a_last.outcome = "embedding_failed"
    /\ ~a_last.reset
    /\ a_total_attempts = 2
    /\ a_state.auth_attempts = <<TRUE>>
    /\ a_state.successful_matches = 1
    /\ Len(a_state.embedding_buffer) = 1

\* a turn of the authenticate loop that got an embedding from its frame
FaceTurn ==
    /\ a_pc = "loop"
    /\ a_total_attempts' # a_total_attempts
    /\ a_last'.outcome = "face"

\* C32: the fusion buffer never holds more than embedding_buffer_size
\* embeddings (also when that size is 0); a turn that gets an embedding leaves
\* in it the last embedding_buffer_size embeddings received since the latest
\* reset, oldest first, and any other turn leaves it as the reset check left
\* it; unless fusion is enabled and the buffer holds at least 2 embeddings,
\* the hit decision is the one the frame's own embedding gives.
C32_FusionBufferFifo ==
    /\ [](a_pc \in {"loop", "done"} =>
            Len(a_state.embedding_buffer) <= config.embedding_buffer_size)
    /\ [][(a_pc = "loop" /\ a_total_attempts' # a_total_attempts) =>
            LET since_reset == IF FaceLost(a_state, now) THEN <<>>
                               ELSE a_state.embedding_buffer
            IN  IF FaceTurn
                THEN LET embedding == Unwrap(a_last'.embedding)
                         alone == BestAgainstAverage(
                                      BestAgainst(SimZero, embedding, a_user_data.embeddings, 1),
                                      embedding, a_user_data)
                     IN  /\ a_state'.embedding_buffer =
                               LastN(Append(since_reset, embedding),
                                     config.embedding_buffer_size)
                         /\ ~(config.use_embedding_fusion
                                /\ Len(a_state'.embedding_buffer) >= 2) =>
                               (a_last'.hit <=> SimLess(config.similarity_threshold, alone))
                ELSE a_state'.embedding_buffer = since_reset]_vars

\* fusion is off, the buffer holds a near and a far embedding whose mean
\* would pass, and the far frame is a miss
C32_Witness ==
    /\ a_pc = "loop"
    /\ ~config.use_embedding_fusion
    /\ config.embedding_buffer_size = 2
    /\ a_last.outcome = "face"
    /\ ~a_last.hit
    /\ a_state.embedding_buffer = <<Emb(<<1, 0>>), Emb(<<0, 1>>)>>
    /\ SimLess(config.similarity_threshold,
               calculate_best_similarity(Emb(<<0, 1>>), a_state.embedding_buffer,
                                         a_user_data, TRUE))

\* a frame that read_enrollment_with_preview reads past: a stream message
\* with its true length
ReadPast(frame) == frame.tag = MSG_TYPE_STREAM /\ ~frame.oversize

\* C33: the client's enroll/enhance read loop goes through the frames in
\* order; preview frames, status updates and Complete never end it; it
\* returns at the first final-response frame with that response and leaves
\* every later byte unread; if the first frame that is not a stream message
\* has a kind byte other than 0 and 1, or a frame declares more than 1 MiB,
\* or the frames run out, it returns an error and no response.
C33_ReadsToFirstTerminal ==
    IsSome(k_decoded) =>
        LET frames == k_message.msg
            read == Unwrap(k_decoded)
            stops == {i \in 1..Len(frames) : ~ReadPast(frames[i])}
        IN  IF stops = {} THEN ~read.ok
            ELSE LET first == CHOOSE i \in stops : \A j \in stops : i <= j
                 IN  IF frames[first].tag = MSG_TYPE_RESPONSE /\ ~frames[first].oversize
                     THEN /\ read.ok
                          /\ read.value = frames[first].msg
                          /\ read.rest = SessionBytes(SubSeq(frames, first + 1, Len(frames)))
                     ELSE ~read.ok

C33_Witness ==
    /\ IsSome(k_decoded)
    /\ k_message.channel = "session"
    /\ Len(k_message.msg) = 3
    /\ k_message.msg[1].msg = Complete
    /\ k_message.msg[2].msg = EnhanceResponse(FALSE, EnhanceDenied, 0, 0, 0)
    /\ k_message.msg[2].tag = MSG_TYPE_RESPONSE
    /\ k_message.msg[3].tag = 2
    /\ Unwrap(k_decoded).ok
    /\ Unwrap(k_decoded).value = k_message.msg[2].msg
    /\ Unwrap(k_decoded).rest = SessionFrameBytes(k_message.msg[3])

\* C34: an Enhance request for a user who has no record never reaches the
\* capture loop and never opens the camera; it ends with an Enhance response
\* with success=false, embeddings_before = embeddings_after = 0 and
\* replaced_count = 0, and the user still has no record.
C34_EnhanceNeedsARecord ==
    (/\ s_pc \in {"loop", "done"}
     /\ s_request.kind = "Enhance"
     /\ s_trace.store0[s_request.username] = None) =>
        /\ s_pc = "done"
        /\ camera = "closed"
        /\ ~s_trace.camera_opened
        /\ s_response = EnhanceResponse(FALSE, s_response.message, 0, 0, 0)
        /\ wire[Len(wire)] = [tag |-> Some(MSG_TYPE_RESPONSE), msg |-> s_response]
        /\ store[s_request.username] = None
        /\ images = s_trace.images0

C34_Witness ==
    /\ s_pc = "done"
    /\ s_request.kind = "Enhance"
    /\ s_request.username = "bob"
    /\ s_peer = 0
    /\ s_trace.invoked
    /\ store["bob"] = None
    /\ s_response =
          EnhanceResponse(FALSE, "User not found. Please enroll first.", 0, 0, 0)

\* C35: merge_user_data returns (added, replaced) with added + replaced equal
\* to the number of new samples and added equal to the growth of the record;
\* an Enhance response with success=true has embeddings_after -
\* embeddings_before + replaced_count equal to the number of samples the
\* request captured, and one with success=false has embeddings_after =
\* embeddings_before and replaced_count = 0.
C35_EnhanceCountsAgree ==
    /\ m_pc = "ret" =>
          /\ m_out.added + m_out.replaced = Len(m_new_embeddings)
          /\ m_out.added = Len(m_out.data.embeddings) - Len(m_existing.embeddings)
    /\ (s_pc = "done" /\ s_response.type = "Enhance") =>
          IF s_response.success
          THEN s_response.embeddings_after - s_response.embeddings_before
                  + s_response.replaced_count = s_local.captured
          ELSE /\ s_response.embeddings_after = s_response.embeddings_before
               /\ s_response.replaced_count = 0

\* a replacing merge of two samples: one overwrites, one is appended
C35_WitnessMerge ==
    /\ m_pc = "ret"
    /\ m_replace_weak
    /\ Len(m_new_embeddings) = 2
    /\ m_out.replaced = 1
    /\ m_out.added = 1

\* an Enhance that replaced a weak sample and says so
C35_Witness ==
    /\ s_pc = "done"
    /\ s_response.type = "Enhance"
    /\ s_response.success
    /\ s_response.replaced_count = 1
    /\ s_local.captured = 1

\* C36 -- the bytes written on a streaming connection are whole frames end to
\* end: a frame cut short by a failed write is the last thing written on its
\* connection
C36_NothingAfterTornFrame ==
    \A i \in 1..Len(wire) :
        (wire[i].tag # None /\ IsTorn(wire[i])) => i = Len(wire)

\* C37 -- while an Authenticate request is handled, whatever its outcome, the
\* user files and the enrollment images stay as they were: no step of
\* handle_auth_request creates, changes or removes one
C37_AuthenticateReadsOnly ==
    [][(a_pc \in {"idle", "loop"}) => (store' = store /\ images' = images)]_vars

\* an Authenticate that succeeded, between two requests that wrote the store
C37_Witness ==
    /\ a_pc = "done"
    /\ a_response.type = "Auth"
    /\ a_response.success
    /\ store["alice"] = Some(EnrolledAlice)

\* an Authenticate for a user without a record: answered, and still no record
C37_WitnessNotEnrolled ==
    /\ a_pc = "done"
    /\ a_response.type = "Auth"
    /\ a_response.message = "not enrolled"
    /\ store[a_request.username] = None

\* C38 -- a tensor in the transposed layout [1, K, N] is parsed without a
\* panic and gives the boxes that the same predictions give in the standard
\* layout [1, N, K], by either parser and for every N
C38_TransposedParsesAsStandard ==
    (IsSome(y_faces) /\ y_output.transposed) =>
        LET run == Unwrap(y_faces)
            standard == Standard(y_output.preds)
        IN  /\ ~run.out.panicked
            /\ run.out = IF run.fn = "parse_detections"
                         THEN parse_detections(standard)
                         ELSE parse_detections_debug(standard)

\* the same for parse_detections_debug alone and more predictions than
\* components, where the shape tells the two layouts apart
C38_DebugParsesAsStandard ==
    (/\ IsSome(y_faces)
     /\ y_output.transposed
     /\ Unwrap(y_faces).fn = "parse_detections_debug"
     /\ Len(y_output.preds) > prediction_length_face) =>
        /\ ~Unwrap(y_faces).out.panicked
        /\ Unwrap(y_faces).out = parse_detections_debug(Standard(y_output.preds))

====
